---- MODULE Spec2Model ----
(***************************************************************************)
(* A model of the vayu TCP event reactor: the buffer (src/core/buffer.c),  *)
(* the socket i/o primitives (src/core/socket.c) and the socket registry   *)
(* and event loop (src/core/server.c).                                     *)
(*                                                                         *)
(* BufSpec drives one buffer through the buffer api.  Spec drives the      *)
(* reactor: the host api between ticks, one tick of serverExec as a loop   *)
(* over the descriptors, the event handler as a nondeterministic choice of *)
(* what it does with the api it is given, and the kernel as the receive    *)
(* queues and the descriptor table.  ReadSpec drives socketRead alone on   *)
(* one connection.  FairSpec is the reactor under the host loop of main.c, *)
(* with the fairness that loop and select() give.                          *)
(***************************************************************************)
EXTENDS Integers, Sequences, FiniteSets, TLC

(***************************************************************************)
(* Program constants.  SOCKET_MAX (FD_SETSIZE) and IO_BUF_SIZE are         *)
(* compile-time knobs of the program; the model uses small values so that  *)
(* every descriptor and every chunk boundary is explored.                  *)
(***************************************************************************)
SOCKET_MAX == 2

INVALID_SOCKET == -1

IO_BUF_SIZE == 2

(***************************************************************************)
(* Bounds of the model.                                                    *)
(***************************************************************************)
\* the longest contents of the buffer driven by BufSpec
MaxBufLen == 4

\* the longest chunk one bufAppend of BufSpec is given
MaxChunk == 2

\* the byte values BufSpec appends are 1..NByte
NByte == 2

\* the most bytes a handler appends to one client's output buffer during
\* one registration of its descriptor
MaxOut == 2

\* the most bytes a peer sends over one connection
MaxIn == 1

\* the most bytes the peer of ReadSpec sends
RdMaxIn == 4

(***************************************************************************)
(* Memory.  A pointer is NULL or points to a block of cells; cell value 0  *)
(* is memory the program did not write yet.                                *)
(***************************************************************************)
NULLPTR == [null |-> TRUE, mem |-> <<>>]

\* a pointer to a block holding the bytes s
PtrTo(s) == [null |-> FALSE, mem |-> s]

\* the first n bytes of the block p points to
BytesOf(p, n) == [i \in 1..n |-> IF i <= Len(p.mem) THEN p.mem[i] ELSE 0]

\* memcpy(dst + off, src, n)
memcpy(dst, off, src, n) ==
    [dst EXCEPT !.mem = [i \in 1..Len(dst.mem) |->
        IF i > off /\ i <= off + n THEN src.mem[i - off] ELSE dst.mem[i]]]

(***************************************************************************)
(* buffer.c                                                                *)
(***************************************************************************)
\* an _alignBufSize that always adds a chunk
_alignBufSize_AddsChunk(s) ==
    (s - (s % IO_BUF_SIZE)) + IO_BUF_SIZE

_alignBufSize(s) ==
    (s - (s % IO_BUF_SIZE)) + (IF s % IO_BUF_SIZE > 0 THEN IO_BUF_SIZE ELSE 0)

\* _resetBuf: data = NULL, len = 0, size = 0
_resetBuf == [data |-> NULLPTR, len |-> 0, size |-> 0]

\* the allocator (realloc by default): a block of newSize cells that keeps
\* the old cells, or NULL with the old block left alone when ok is FALSE
_alloc(ptr, newSize, ok) ==
    IF ok
    THEN [null |-> FALSE,
          mem |-> [i \in 1..newSize |->
                      IF i <= Len(ptr.mem) THEN ptr.mem[i] ELSE 0]]
    ELSE NULLPTR

\* a bufAppend that stores the allocator's result before testing it
bufAppend_LosesOnFailure(buf, data, len, ok) ==
    IF ~data.null /\ len > 0
    THEN LET newLen == buf.len + len
             newSize == _alignBufSize(newLen)
         IN  IF newSize > buf.size
             THEN LET newData == _alloc(buf.data, newSize, ok)
                  IN  IF newData.null
                      THEN [ret |-> 0, buf |-> [buf EXCEPT !.data = newData]]
                      ELSE [ret |-> 1,
                            buf |-> [data |-> memcpy(newData, buf.len, data, len),
                                     len |-> newLen, size |-> newSize]]
             ELSE [ret |-> 1,
                   buf |-> [data |-> memcpy(buf.data, buf.len, data, len),
                            len |-> newLen, size |-> buf.size]]
    ELSE [ret |-> 1, buf |-> buf]

\* a bufAppend that copies the new data to the start of the storage
bufAppend_CopiesToStart(buf, data, len, ok) ==
    IF ~data.null /\ len > 0
    THEN LET newLen == buf.len + len
             newSize == _alignBufSize(newLen)
         IN  IF newSize > buf.size
             THEN LET newData == _alloc(buf.data, newSize, ok)
                  IN  IF newData.null
                      THEN [ret |-> 0, buf |-> buf]
                      ELSE [ret |-> 1,
                            buf |-> [data |-> memcpy(newData, 0, data, len),
                                     len |-> newLen, size |-> newSize]]
             ELSE [ret |-> 1,
                   buf |-> [data |-> memcpy(buf.data, 0, data, len),
                            len |-> newLen, size |-> buf.size]]
    ELSE [ret |-> 1, buf |-> buf]

\* a bufAppend that refuses a call with nothing to append
bufAppend_RejectsEmpty(buf, data, len, ok) ==
    IF ~data.null /\ len > 0
    THEN LET newLen == buf.len + len
             newSize == _alignBufSize(newLen)
         IN  IF newSize > buf.size
             THEN LET newData == _alloc(buf.data, newSize, ok)
                  IN  IF newData.null
                      THEN [ret |-> 0, buf |-> buf]
                      ELSE [ret |-> 1,
                            buf |-> [data |-> memcpy(newData, buf.len, data, len),
                                     len |-> newLen, size |-> newSize]]
             ELSE [ret |-> 1,
                   buf |-> [data |-> memcpy(buf.data, buf.len, data, len),
                            len |-> newLen, size |-> buf.size]]
    ELSE [ret |-> 0, buf |-> buf]

\* bufAppend(buf, data, len); ok is what the allocator answers if it is asked
bufAppend(buf, data, len, ok) ==
    IF ~data.null /\ len > 0
    THEN LET newLen == buf.len + len
             newSize == _alignBufSize(newLen)
         IN  IF newSize > buf.size
             THEN LET newData == _alloc(buf.data, newSize, ok)
                  IN  IF newData.null
                      THEN [ret |-> 0, buf |-> buf]
                      ELSE [ret |-> 1,
                            buf |-> [data |-> memcpy(newData, buf.len, data, len),
                                     len |-> newLen, size |-> newSize]]
             ELSE [ret |-> 1,
                   buf |-> [data |-> memcpy(buf.data, buf.len, data, len),
                            len |-> newLen, size |-> buf.size]]
    ELSE [ret |-> 1, buf |-> buf]

\* bufPeek: the storage and *lenDest, the buffer unchanged
bufPeek(buf) == [data |-> buf.data, len |-> buf.len, buf |-> buf]

\* a bufExtract that resets data and len and leaves size
bufExtract_KeepsSize(buf) ==
    [data |-> buf.data, len |-> buf.len,
     buf |-> [data |-> NULLPTR, len |-> 0, size |-> buf.size]]

\* bufExtract: the storage and *lenDest, the buffer reset
bufExtract(buf) == [data |-> buf.data, len |-> buf.len, buf |-> _resetBuf]

bufHasData(buf) == ~buf.data.null /\ buf.len > 0

\* bufClear: the storage freed, the buffer reset
bufClear(buf) == _resetBuf

\* the bytes a buffer holds
BufBytes(buf) == BytesOf(buf.data, buf.len)

(***************************************************************************)
(* State.                                                                  *)
(*   server.c statics: _callback (TRUE: a handler is installed),           *)
(*     _sockets, _socketReadSet, _socketWriteSet, _highestSocket;          *)
(*   serverExec statics: fd, readSet, writeSet; nfds, the first argument   *)
(*     of its select(); result, the value the last serverExec returned     *)
(*     (-1: none yet);                                                     *)
(*   stopFd: the loop variable of _removeAllSockets;                       *)
(*   pc: "host" between api calls, "exec" inside the descriptor loop of    *)
(*     serverExec ("in"/"out" in phase: before the read test or before the *)
(*     write test of descriptor fd), "stop" inside _removeAllSockets;      *)
(*   the kernel: kfd, what each descriptor is ("closed", "listen",         *)
(*     "conn"), rcvq, the receive queue of each connection, psent, the     *)
(*     number of bytes the peer sent on it;                                *)
(*   the buffer driven by BufSpec: b, bOp, bRet, bPrev, bHist, bCount;     *)
(*   main.c statics: _exitCode, _restart, _active; mpc, where main() is.   *)
(* History, written and never read by the program:                         *)
(*   trace: the events dispatched and the close() and log calls made by    *)
(*     the last step, in order;                                            *)
(*   removed: per descriptor, how often _removeSocket ran since its last   *)
(*     _addSocket (2 stands for two or more);                              *)
(*   appended, sent: per descriptor, the bytes the handler appended to the *)
(*     output buffer and the bytes send() accepted since its _addSocket;   *)
(*   rd, wr: what the socketRead and the socketWrite of the last step saw  *)
(*     and did;                                                            *)
(*   provided: what providerPrepare returned; termed: a terminating signal *)
(*     was delivered; runs, ticks: the calls of serverStart and of         *)
(*     serverExec made by main.c; signals: the signals delivered; endedBy: *)
(*     what ended the loop of _exec last ("signal", "result").             *)
(* The record Cur also has evented and closing: whether the step ran the   *)
(* handler for an event other than Close, and for a Close event.           *)
(***************************************************************************)
VARIABLES _callback, _sockets, _socketReadSet, _socketWriteSet, _highestSocket,
          fd, readSet, writeSet, nfds, result, stopFd, pc, phase,
          kfd, rcvq, psent,
          trace, removed, appended, sent, rd, wr,
          b, bOp, bRet, bPrev, bHist, bCount,
          _exitCode, _restart, _active, mpc, provided, termed, runs, ticks,
          signals, endedBy

progVars == <<_callback, _sockets, _socketReadSet, _socketWriteSet,
              _highestSocket, fd, readSet, writeSet, nfds, result, stopFd, pc,
              phase,
              kfd, rcvq, psent, trace, removed, appended, sent, rd, wr>>

bufVars == <<b, bOp, bRet, bPrev, bHist, bCount>>

mainVars == <<_exitCode, _restart, _active, mpc, provided, termed, runs, ticks,
              signals, endedBy>>

vars == <<progVars, bufVars, mainVars>>

\* main.c before main() runs: the initial values of its statics
MainInit ==
    /\ _exitCode = "EXIT_OK"
    /\ _restart = 0
    /\ _active = 1
    /\ mpc = "main"
    /\ provided = TRUE
    /\ termed = FALSE
    /\ runs = 0
    /\ ticks = 0
    /\ signals = 0
    /\ endedBy = "none"

\* the descriptors that index _sockets
Fds == 0..(SOCKET_MAX - 1)

\* the descriptors the kernel hands out: Fds and one that is out of range
KFds == 0..SOCKET_MAX

\* memset(_sockets, 0, ...)
ZeroSocket == [iBuf |-> _resetBuf, oBuf |-> _resetBuf, keepAlive |-> 0, isServer |-> 0]

NoRead == [on |-> FALSE, fd |-> -1, ret |-> 0, n |-> 0,
           qBefore |-> <<>>, qAfter |-> <<>>, iBefore |-> <<>>, iAfter |-> <<>>]

NoWrite == [on |-> FALSE, fd |-> -1, ret |-> 0, n |-> 0, ok |-> TRUE, touched |-> FALSE,
            oHandled |-> <<>>, keepAlive |-> 0,
            oBefore |-> <<>>, oAfter |-> <<>>, inWriteSet |-> FALSE, live |-> FALSE]

\* the program state as one record, which the operators below transform
Cur ==
    [cb |-> _callback, sockets |-> _sockets, rset |-> _socketReadSet,
     wset |-> _socketWriteSet, highest |-> _highestSocket,
     kfd |-> kfd, rcvq |-> rcvq, psent |-> psent,
     trace |-> <<>>, removed |-> removed, appended |-> appended, sent |-> sent,
     rd |-> NoRead, wr |-> NoWrite, evented |-> FALSE, closing |-> FALSE]

Note(s, op, sFd, cFd, live) ==
    [s EXCEPT !.trace = Append(@, [op |-> op, sFd |-> sFd, cFd |-> cFd, live |-> live])]

\* logWrite
logWrite(s, what) == Note(s, "log", INVALID_SOCKET, INVALID_SOCKET, FALSE)

\* the descriptor the kernel gives the next socket: the lowest one that is
\* not open (SOCKET_MAX, which is out of range, when all of Fds are open)
LowestFree(s) == CHOOSE d \in KFds :
                    /\ s.kfd[d] = "closed"
                    /\ \A e \in KFds : s.kfd[e] = "closed" => d <= e

(***************************************************************************)
(* socket.c: socketClose                                                   *)
(***************************************************************************)
socketClose(s, d) ==
    LET open == d \in KFds /\ s.kfd[d] # "closed"
        s1 == Note(s, "close", INVALID_SOCKET, d, open)
    IN  IF open
        THEN [s1 EXCEPT !.kfd[d] = "closed",
                        !.rcvq = IF d \in Fds THEN [@ EXCEPT ![d] = <<>>] ELSE @,
                        !.psent = IF d \in Fds THEN [@ EXCEPT ![d] = 0] ELSE @]
        ELSE s1

(***************************************************************************)
(* server.c: the registry                                                  *)
(***************************************************************************)
_isValidSocket(d) == d > INVALID_SOCKET /\ d < SOCKET_MAX

\* a rescan that takes the descriptor below the old maximum unchecked
_findHighestSocket_NoTest(rs, highest) == highest - 1

_findHighestSocket(rs, highest) ==
    LET below == {i \in 0..(highest - 1) : i \in rs}
    IN  IF below = {} THEN INVALID_SOCKET
        ELSE CHOOSE i \in below : \A j \in below : j <= i

\* an _addSocket that leaves _highestSocket alone
_addSocket_KeepsHighest(s, d) ==
    IF _isValidSocket(d)
    THEN [ret |-> 1,
          s |-> [s EXCEPT !.sockets[d] = [iBuf |-> bufClear(@.iBuf),
                                          oBuf |-> bufClear(@.oBuf),
                                          keepAlive |-> 1, isServer |-> 0],
                          !.rset = @ \cup {d},
                          !.removed[d] = 0,
                          !.appended[d] = <<>>,
                          !.sent[d] = <<>>]]
    ELSE [ret |-> 0, s |-> s]

\* an _addSocket that does not clear the buffers of the record
_addSocket_KeepsBuffers(s, d) ==
    IF _isValidSocket(d)
    THEN [ret |-> 1,
          s |-> [s EXCEPT !.sockets[d] = [iBuf |-> @.iBuf,
                                          oBuf |-> @.oBuf,
                                          keepAlive |-> 1, isServer |-> 0],
                          !.rset = @ \cup {d},
                          !.highest = IF d > @ THEN d ELSE @,
                          !.removed[d] = 0,
                          !.appended[d] = <<>>,
                          !.sent[d] = <<>>]]
    ELSE [ret |-> 0, s |-> s]

_addSocket(s, d) ==
    IF _isValidSocket(d)
    THEN [ret |-> 1,
          s |-> [s EXCEPT !.sockets[d] = [iBuf |-> bufClear(@.iBuf),
                                          oBuf |-> bufClear(@.oBuf),
                                          keepAlive |-> 1, isServer |-> 0],
                          !.rset = @ \cup {d},
                          !.highest = IF d > @ THEN d ELSE @,
                          !.removed[d] = 0,
                          !.appended[d] = <<>>,
                          !.sent[d] = <<>>]]
    ELSE [ret |-> 0, s |-> s]

_enableSocketWrite(s, d) == [s EXCEPT !.wset = @ \cup {d}]

_disableSocketWrite(s, d) == [s EXCEPT !.wset = @ \ {d}]

\* a serverCloseSocket that does not test isServer
serverCloseSocket_AnyRole(s, d) ==
    IF _isValidSocket(d)
    THEN _enableSocketWrite([s EXCEPT !.sockets[d].keepAlive = 0], d)
    ELSE s

\* a serverCloseSocket that clears keepAlive and leaves the write set alone
serverCloseSocket_NoWriteInterest(s, d) ==
    IF _isValidSocket(d)
    THEN IF s.sockets[d].isServer = 0
         THEN [s EXCEPT !.sockets[d].keepAlive = 0]
         ELSE s
    ELSE s

serverCloseSocket(s, d) ==
    IF _isValidSocket(d)
    THEN IF s.sockets[d].isServer = 0
         THEN _enableSocketWrite([s EXCEPT !.sockets[d].keepAlive = 0], d)
         ELSE s
    ELSE s

\* serverAddServerSocket; d is what socketOpenServer returns: a fresh
\* listening descriptor, or INVALID_SOCKET after logging the failure
serverAddServerSocket(s, d) ==
    LET s0 == IF d >= 0 THEN [s EXCEPT !.kfd[d] = "listen"]
              ELSE logWrite(s, "socketOpenServer")
        a == _addSocket(s0, d)
    IN  IF a.ret = 1
        THEN [a.s EXCEPT !.sockets[d].isServer = 1]
        ELSE IF d >= 0 THEN socketClose(s0, d) ELSE s0

(***************************************************************************)
(* The event handler.  During one event it does one of: nothing; extract   *)
(* the input buffer; append one byte to the output buffer; append one byte *)
(* and ask to close its client; serverCloseSocket(arg); open a listening   *)
(* socket, which the kernel gives descriptor arg.  The k-th byte appended  *)
(* for a descriptor is k.  An append the allocator refuses changes nothing *)
(* and is the handler doing nothing.  Or the script raises an error, which  *)
(* _luaServerCallback logs and answers with serverCloseSocket(cFd).        *)
(***************************************************************************)
H(op, arg) == [op |-> op, arg |-> arg]

\* what a handler may do in an event that carries no buffers
PlainOps ==
    {H("nop", -1), H("open", -1), H("error", -1)} \cup {H("close", x) : x \in Fds}

\* what a handler may do in an event that carries the client's buffers
BufOps == PlainOps \cup {H("consume", -1), H("append", -1), H("appendClose", -1)}

HandlerAppend(s, cFd) ==
    IF Len(s.appended[cFd]) < MaxOut
    THEN LET byte == Len(s.appended[cFd]) + 1
         IN  [s EXCEPT !.sockets[cFd].oBuf = bufAppend(@, PtrTo(<<byte>>), 1, TRUE).buf,
                       !.appended[cFd] = Append(@, byte)]
    ELSE s

\* a _luaServerCallback that logs the error of the script and goes on
ScriptError_Ignored(s, cFd) ==
    logWrite(logWrite(s, "ERROR lua_pcall()"), "lua_tostring")

\* _luaServerCallback when lua_pcall fails
ScriptError(s, cFd) ==
    serverCloseSocket(logWrite(logWrite(s, "ERROR lua_pcall()"), "lua_tostring"), cFd)

\* a handler whose close request destroys the socket at once, dispatching
\* the close event from inside the running handler
HandlerRun_Reenters(s, cFd, h) ==
    CASE h.op = "nop" -> s
      [] h.op = "consume" ->
            IF bufHasData(s.sockets[cFd].iBuf)
            THEN [s EXCEPT !.sockets[cFd].iBuf = bufExtract(@).buf]
            ELSE s
      [] h.op = "append" -> HandlerAppend(s, cFd)
      [] h.op = "appendClose" -> serverCloseSocket(HandlerAppend(s, cFd), cFd)
      [] h.op = "close" ->
            IF h.arg \in s.rset /\ s.sockets[h.arg].isServer = 0
            THEN [s EXCEPT !.trace = Append(@, [op |-> "socket_close",
                                                sFd |-> INVALID_SOCKET,
                                                cFd |-> h.arg, live |-> TRUE,
                                                iBuf |-> [null |-> TRUE, fd |-> INVALID_SOCKET],
                                                oBuf |-> [null |-> TRUE, fd |-> INVALID_SOCKET]]),
                           !.rset = @ \ {h.arg},
                           !.wset = @ \ {h.arg},
                           !.removed[h.arg] = IF @ < 2 THEN @ + 1 ELSE 2]
            ELSE s
      [] h.op = "open" -> serverAddServerSocket(s, LowestFree(s))
      [] h.op = "error" -> ScriptError(s, cFd)

HandlerRun(s, cFd, h) ==
    CASE h.op = "nop" -> s
      [] h.op = "consume" ->
            IF bufHasData(s.sockets[cFd].iBuf)
            THEN [s EXCEPT !.sockets[cFd].iBuf = bufExtract(@).buf]
            ELSE s
      [] h.op = "append" -> HandlerAppend(s, cFd)
      [] h.op = "appendClose" -> serverCloseSocket(HandlerAppend(s, cFd), cFd)
      [] h.op = "close" -> serverCloseSocket(s, h.arg)
      [] h.op = "open" -> serverAddServerSocket(s, LowestFree(s))
      [] h.op = "error" -> ScriptError(s, cFd)

\* a pointer to a buffer of the record of descriptor d, and the null one
BufOf(d) == [null |-> FALSE, fd |-> d]

NoBuf == [null |-> TRUE, fd |-> INVALID_SOCKET]

\* the eventContext_t the handler is given, noted in the trace
Context(s, event, sFd, cFd, iBuf, oBuf, live) ==
    [s EXCEPT !.trace = Append(@, [op |-> event, sFd |-> sFd, cFd |-> cFd,
                                   live |-> live, iBuf |-> iBuf, oBuf |-> oBuf])]

\* an _invokeCallback that does not dispatch the idle event
_invokeCallback_NoIdle(s, event, sFd, cFd, iBuf, oBuf, h) ==
    IF s.cb /\ event # "idle"
    THEN LET live == IF cFd # INVALID_SOCKET THEN cFd \in s.rset ELSE sFd \in s.rset
             s1 == IF event = "socket_close"
                   THEN [s EXCEPT !.closing = TRUE]
                   ELSE [s EXCEPT !.evented = TRUE]
         IN  HandlerRun(Context(s1, event, sFd, cFd, iBuf, oBuf, live), cFd, h)
    ELSE s

\* _invokeCallback(event, sFd, cFd, iBuf, oBuf); h is what the handler does
_invokeCallback(s, event, sFd, cFd, iBuf, oBuf, h) ==
    IF s.cb
    THEN LET live == IF cFd # INVALID_SOCKET THEN cFd \in s.rset ELSE sFd \in s.rset
             s1 == IF event = "socket_close"
                   THEN [s EXCEPT !.closing = TRUE]
                   ELSE [s EXCEPT !.evented = TRUE]
         IN  HandlerRun(Context(s1, event, sFd, cFd, iBuf, oBuf, live), cFd, h)
    ELSE s

\* a _removeSocket that passes every descriptor as the client of the event
_removeSocket_AlwaysClient(s, d, h) ==
    LET s1 == _invokeCallback(s, "socket_close", INVALID_SOCKET, d, NoBuf, NoBuf, h)
        s2 == [s1 EXCEPT !.sockets[d] = [iBuf |-> bufClear(@.iBuf),
                                         oBuf |-> bufClear(@.oBuf),
                                         keepAlive |-> 0, isServer |-> 0],
                         !.rset = @ \ {d},
                         !.wset = @ \ {d},
                         !.removed[d] = IF @ < 2 THEN @ + 1 ELSE 2,
                         !.appended[d] = <<>>,
                         !.sent[d] = <<>>]
        s3 == IF d = s2.highest
              THEN [s2 EXCEPT !.highest = _findHighestSocket(s2.rset, s2.highest)]
              ELSE s2
    IN  socketClose(s3, d)

\* a _removeSocket that empties the write set instead of clearing one bit
_removeSocket_ZeroesWriteSet(s, d, h) ==
    LET s1 == IF s.sockets[d].isServer = 1
              THEN _invokeCallback(s, "socket_close", d, INVALID_SOCKET, NoBuf, NoBuf, h)
              ELSE _invokeCallback(s, "socket_close", INVALID_SOCKET, d, NoBuf, NoBuf, h)
        s2 == [s1 EXCEPT !.sockets[d] = [iBuf |-> bufClear(@.iBuf),
                                         oBuf |-> bufClear(@.oBuf),
                                         keepAlive |-> 0, isServer |-> 0],
                         !.rset = @ \ {d},
                         !.wset = {},
                         !.removed[d] = IF @ < 2 THEN @ + 1 ELSE 2,
                         !.appended[d] = <<>>,
                         !.sent[d] = <<>>]
        s3 == IF d = s2.highest
              THEN [s2 EXCEPT !.highest = _findHighestSocket(s2.rset, s2.highest)]
              ELSE s2
    IN  socketClose(s3, d)

_removeSocket(s, d, h) ==
    LET s1 == IF s.sockets[d].isServer = 1
              THEN _invokeCallback(s, "socket_close", d, INVALID_SOCKET, NoBuf, NoBuf, h)
              ELSE _invokeCallback(s, "socket_close", INVALID_SOCKET, d, NoBuf, NoBuf, h)
        s2 == [s1 EXCEPT !.sockets[d] = [iBuf |-> bufClear(@.iBuf),
                                         oBuf |-> bufClear(@.oBuf),
                                         keepAlive |-> 0, isServer |-> 0],
                         !.rset = @ \ {d},
                         !.wset = @ \ {d},
                         !.removed[d] = IF @ < 2 THEN @ + 1 ELSE 2,
                         !.appended[d] = <<>>,
                         !.sent[d] = <<>>]
        s3 == IF d = s2.highest
              THEN [s2 EXCEPT !.highest = _findHighestSocket(s2.rset, s2.highest)]
              ELSE s2
    IN  socketClose(s3, d)

(***************************************************************************)
(* socket.c: accept, read, write.  What the kernel answers is an argument: *)
(* acc for accept(), rcv for recv(), n for send(); ok is what the          *)
(* allocator answers if bufAppend asks it.                                 *)
(***************************************************************************)
\* socketAccept: acc.kind is "conn" (a connection, which gets descriptor
\* acc.fd), "eagain" or "err"
socketAccept(s, sFd, acc) ==
    CASE acc.kind = "conn" ->
            [ret |-> acc.fd, s |-> [s EXCEPT !.kfd[acc.fd] = "conn"]]
      [] acc.kind = "eagain" -> [ret |-> SOCKET_MAX, s |-> s]
      [] OTHER -> [ret |-> INVALID_SOCKET,
                   s |-> logWrite(logWrite(s, "ERROR accept()"), "strerror")]

Min(x, y) == IF x < y THEN x ELSE y

\* the bytes of q after its first n
Drop(q, n) == SubSeq(q, n + 1, Len(q))

\* a socketRead that takes the bytes off the socket before it buffers them
socketRead_ConsumesFirst(s, cFd, rcv, ok) ==
    LET q == s.rcvq[cFd]
        bytesRead == CASE rcv = "data" -> Min(Len(q), IO_BUF_SIZE)
                       [] rcv = "eof" -> 0
                       [] OTHER -> -1
        tmpBuf == PtrTo(SubSeq(q, 1, Min(Len(q), IO_BUF_SIZE)))
        iBuf == s.sockets[cFd].iBuf
        Seen(r) == [r EXCEPT !.s.rd = [on |-> TRUE, fd |-> cFd, ret |-> r.ret,
                                       n |-> bytesRead, qBefore |-> q,
                                       qAfter |-> r.s.rcvq[cFd],
                                       iBefore |-> BufBytes(iBuf),
                                       iAfter |-> BufBytes(r.s.sockets[cFd].iBuf)]]
    IN  IF bytesRead > 0
        THEN LET a == bufAppend(iBuf, tmpBuf, bytesRead, ok)
                 s1 == [s EXCEPT !.rcvq[cFd] = Drop(q, bytesRead)]
             IN  IF a.ret = 1
                 THEN Seen([ret |-> 1, s |-> [s1 EXCEPT !.sockets[cFd].iBuf = a.buf]])
                 ELSE Seen([ret |-> 0, s |-> s1])
        ELSE IF bytesRead < 0
        THEN Seen([ret |-> 0, s |-> logWrite(logWrite(s, "ERROR recv()"), "strerror")])
        ELSE Seen([ret |-> 0, s |-> s])

\* socketRead: rcv is "data" (recv with MSG_PEEK copies up to IO_BUF_SIZE
\* queued bytes), "eof" (recv returns 0) or "err" (recv returns -1)
socketRead(s, cFd, rcv, ok) ==
    LET q == s.rcvq[cFd]
        bytesRead == CASE rcv = "data" -> Min(Len(q), IO_BUF_SIZE)
                       [] rcv = "eof" -> 0
                       [] OTHER -> -1
        tmpBuf == PtrTo(SubSeq(q, 1, Min(Len(q), IO_BUF_SIZE)))
        iBuf == s.sockets[cFd].iBuf
        Seen(r) == [r EXCEPT !.s.rd = [on |-> TRUE, fd |-> cFd, ret |-> r.ret,
                                       n |-> bytesRead, qBefore |-> q,
                                       qAfter |-> r.s.rcvq[cFd],
                                       iBefore |-> BufBytes(iBuf),
                                       iAfter |-> BufBytes(r.s.sockets[cFd].iBuf)]]
    IN  IF bytesRead > 0
        THEN LET a == bufAppend(iBuf, tmpBuf, bytesRead, ok)
             IN  IF a.ret = 1
                 THEN Seen([ret |-> 1,
                            s |-> [s EXCEPT !.sockets[cFd].iBuf = a.buf,
                                            !.rcvq[cFd] = Drop(q, bytesRead)]])
                 ELSE Seen([ret |-> 0, s |-> s])
        ELSE IF bytesRead < 0
        THEN Seen([ret |-> 0, s |-> logWrite(logWrite(s, "ERROR recv()"), "strerror")])
        ELSE Seen([ret |-> 0, s |-> s])

\* socketWrite: n is what send() returns, -1 or the number of bytes taken
socketWrite(s, cFd, n, ok) ==
    LET oBuf == s.sockets[cFd].oBuf
    IN  IF bufHasData(oBuf)
        THEN LET e == bufExtract(oBuf)
                 data == BytesOf(e.data, e.len)
                 s1 == IF n < 0
                       THEN logWrite(logWrite(s, "ERROR send()"), "strerror")
                       ELSE s
                 bytesWritten == IF n < 0 THEN 0 ELSE n
                 rest == IF bytesWritten < e.len
                         THEN bufAppend(e.buf, PtrTo(Drop(data, bytesWritten)),
                                        e.len - bytesWritten, ok).buf
                         ELSE e.buf
                 s2 == [s1 EXCEPT !.sockets[cFd].oBuf = rest,
                                  !.sent[cFd] = @ \o SubSeq(data, 1, bytesWritten)]
             IN  [ret |-> IF bytesWritten = 0 THEN 0 ELSE 1, s |-> s2]
        ELSE [ret |-> 1, s |-> s]

(***************************************************************************)
(* server.c: the handling of one ready descriptor.  h1 is what the handler *)
(* does in the Accept, Read or Write event, h2 what it does in the Close   *)
(* event if the handling goes on to _removeSocket.                         *)
(***************************************************************************)
\* a _checkClientSocket that tests keepAlive before the output buffer
_checkClientSocket_KeepAliveFirst(s, cFd, h2) ==
    IF s.sockets[cFd].keepAlive = 0
    THEN _removeSocket(s, cFd, h2)
    ELSE IF bufHasData(s.sockets[cFd].oBuf)
    THEN _enableSocketWrite(s, cFd)
    ELSE s

\* a _checkClientSocket that does not ask for a write when output is pending
_checkClientSocket_NoWriteInterest(s, cFd, h2) ==
    IF bufHasData(s.sockets[cFd].oBuf)
    THEN s
    ELSE IF s.sockets[cFd].keepAlive = 0
    THEN _removeSocket(s, cFd, h2)
    ELSE s

_checkClientSocket(s, cFd, h2) ==
    IF bufHasData(s.sockets[cFd].oBuf)
    THEN _enableSocketWrite(s, cFd)
    ELSE IF s.sockets[cFd].keepAlive = 0
    THEN _removeSocket(s, cFd, h2)
    ELSE s

\* a _handleServerInput that does not close a connection it cannot add
_handleServerInput_KeepsUnadded(s, sFd, acc, h1, h2) ==
    LET a == socketAccept(s, sFd, acc)
        cFd == a.ret
    IN  IF cFd >= 0
        THEN LET n == _addSocket(a.s, cFd)
             IN  IF n.ret = 1
                 THEN _checkClientSocket(
                          _invokeCallback(n.s, "socket_accept", sFd, cFd,
                                          BufOf(cFd), BufOf(cFd), h1), cFd, h2)
                 ELSE a.s
        ELSE _removeSocket(a.s, sFd, h2)

_handleServerInput(s, sFd, acc, h1, h2) ==
    LET a == socketAccept(s, sFd, acc)
        cFd == a.ret
    IN  IF cFd >= 0
        THEN LET n == _addSocket(a.s, cFd)
             IN  IF n.ret = 1
                 THEN _checkClientSocket(
                          _invokeCallback(n.s, "socket_accept", sFd, cFd,
                                          BufOf(cFd), BufOf(cFd), h1), cFd, h2)
                 ELSE socketClose(a.s, cFd)
        ELSE _removeSocket(a.s, sFd, h2)

\* a _handleClientInput that passes the client descriptor as sFd as well
_handleClientInput_PassesServer(s, cFd, rcv, ok, h1, h2) ==
    LET r == socketRead(s, cFd, rcv, ok)
    IN  IF r.ret = 1
        THEN _checkClientSocket(
                 _invokeCallback(r.s, "socket_read", cFd, cFd,
                                 BufOf(cFd), BufOf(cFd), h1), cFd, h2)
        ELSE _removeSocket(r.s, cFd, h2)

_handleClientInput(s, cFd, rcv, ok, h1, h2) ==
    LET r == socketRead(s, cFd, rcv, ok)
    IN  IF r.ret = 1
        THEN _checkClientSocket(
                 _invokeCallback(r.s, "socket_read", INVALID_SOCKET, cFd,
                                 BufOf(cFd), BufOf(cFd), h1), cFd, h2)
        ELSE _removeSocket(r.s, cFd, h2)

\* a _handleOutput that clears the write interest after every write event
_handleOutput_AlwaysDisables(s, cFd, n, ok, h1, h2) ==
    LET w == socketWrite(s, cFd, n, ok)
        s1 == _invokeCallback(w.s, "socket_write", INVALID_SOCKET, cFd,
                              BufOf(cFd), BufOf(cFd), h1)
        s2 == IF w.ret = 1
              THEN IF ~bufHasData(s1.sockets[cFd].oBuf) /\ s1.sockets[cFd].keepAlive = 0
                   THEN _removeSocket(_disableSocketWrite(s1, cFd), cFd, h2)
                   ELSE _disableSocketWrite(s1, cFd)
              ELSE _removeSocket(w.s, cFd, h2)
    IN  [s2 EXCEPT !.wr = [on |-> TRUE, fd |-> cFd, ret |-> w.ret, n |-> n, ok |-> ok,
                           touched |-> w.ret = 1 /\ s1.sockets[cFd].oBuf # w.s.sockets[cFd].oBuf,
                           oHandled |-> IF w.ret = 1
                                        THEN BufBytes(s1.sockets[cFd].oBuf) ELSE <<>>,
                           keepAlive |-> IF w.ret = 1
                                         THEN s1.sockets[cFd].keepAlive ELSE 0,
                           oBefore |-> BufBytes(s.sockets[cFd].oBuf),
                           oAfter |-> BufBytes(s2.sockets[cFd].oBuf),
                           inWriteSet |-> cFd \in s2.wset,
                           live |-> cFd \in s2.rset]]

_handleOutput(s, cFd, n, ok, h1, h2) ==
    LET w == socketWrite(s, cFd, n, ok)
        s1 == _invokeCallback(w.s, "socket_write", INVALID_SOCKET, cFd,
                              BufOf(cFd), BufOf(cFd), h1)
        s2 == IF w.ret = 1
              THEN IF ~bufHasData(s1.sockets[cFd].oBuf)
                   THEN IF s1.sockets[cFd].keepAlive = 0
                        THEN _removeSocket(_disableSocketWrite(s1, cFd), cFd, h2)
                        ELSE _disableSocketWrite(s1, cFd)
                   ELSE s1
              ELSE _removeSocket(w.s, cFd, h2)
    IN  [s2 EXCEPT !.wr = [on |-> TRUE, fd |-> cFd, ret |-> w.ret, n |-> n, ok |-> ok,
                           touched |-> w.ret = 1 /\ s1.sockets[cFd].oBuf # w.s.sockets[cFd].oBuf,
                           oHandled |-> IF w.ret = 1
                                        THEN BufBytes(s1.sockets[cFd].oBuf) ELSE <<>>,
                           keepAlive |-> IF w.ret = 1
                                         THEN s1.sockets[cFd].keepAlive ELSE 0,
                           oBefore |-> BufBytes(s.sockets[cFd].oBuf),
                           oAfter |-> BufBytes(s2.sockets[cFd].oBuf),
                           inWriteSet |-> cFd \in s2.wset,
                           live |-> cFd \in s2.rset]]

(***************************************************************************)
(* What the kernel may answer.                                             *)
(***************************************************************************)
AcceptOutcomes(s, sFd) ==
    IF s.kfd[sFd] = "listen"
    THEN {[kind |-> "conn", fd |-> LowestFree(s)],
          [kind |-> "eagain", fd |-> -1], [kind |-> "err", fd |-> -1]}
    ELSE {[kind |-> "err", fd |-> -1]}

RecvOutcomes(s, cFd) ==
    IF s.kfd[cFd] = "conn"
    THEN IF s.rcvq[cFd] # <<>> THEN {"data", "err"} ELSE {"eof", "err"}
    ELSE {"err"}

SendOutcomes(s, cFd) ==
    IF bufHasData(s.sockets[cFd].oBuf)
    THEN IF s.kfd[cFd] = "conn" THEN -1..s.sockets[cFd].oBuf.len ELSE {-1}
    ELSE {0}

\* the allocator is asked only where bufAppend is reached and has to grow
AllocOutcomes(asked) == IF asked THEN BOOLEAN ELSE {TRUE}

Nop == H("nop", -1)

(***************************************************************************)
(* Steps.                                                                  *)
(***************************************************************************)
Commit(s) ==
    /\ _callback' = s.cb
    /\ _sockets' = s.sockets
    /\ _socketReadSet' = s.rset
    /\ _socketWriteSet' = s.wset
    /\ _highestSocket' = s.highest
    /\ kfd' = s.kfd
    /\ rcvq' = s.rcvq
    /\ psent' = s.psent
    /\ trace' = s.trace
    /\ removed' = s.removed
    /\ appended' = s.appended
    /\ sent' = s.sent
    /\ rd' = s.rd
    /\ wr' = s.wr

\* the state serverPrepare leaves, but for _callback
InitRest ==
    /\ _sockets = [d \in Fds |-> ZeroSocket]
    /\ _socketReadSet = {}
    /\ _socketWriteSet = {}
    /\ _highestSocket = INVALID_SOCKET
    /\ fd = 0
    /\ readSet = {}
    /\ writeSet = {}
    /\ nfds = 0
    /\ result = -1
    /\ stopFd = 0
    /\ pc = "host"
    /\ phase = "in"
    /\ kfd = [d \in KFds |-> "closed"]
    /\ rcvq = [d \in Fds |-> <<>>]
    /\ psent = [d \in Fds |-> 0]
    /\ trace = <<>>
    /\ removed = [d \in Fds |-> 0]
    /\ appended = [d \in Fds |-> <<>>]
    /\ sent = [d \in Fds |-> <<>>]
    /\ rd = NoRead
    /\ wr = NoWrite
    /\ b = _resetBuf
    /\ bOp = "init"
    /\ bRet = [ret |-> 1, null |-> TRUE, data |-> <<>>, len |-> 0, want |-> <<>>]
    /\ bPrev = _resetBuf
    /\ bHist = <<>>
    /\ bCount = 0
    /\ MainInit

Init == _callback = FALSE /\ InitRest

loopVars == <<fd, readSet, writeSet, nfds, result, stopFd, pc, phase>>

\* a serverPrepare that does not clear the write set
serverPrepare_KeepsWriteSet(s) ==
    [s EXCEPT !.cb = FALSE,
              !.sockets = [d \in Fds |-> ZeroSocket],
              !.rset = {},
              !.highest = INVALID_SOCKET]

serverPrepare(s) ==
    [s EXCEPT !.cb = FALSE,
              !.sockets = [d \in Fds |-> ZeroSocket],
              !.rset = {},
              !.wset = {},
              !.highest = INVALID_SOCKET]

\* serverPrepare called by the host
Prepare ==
    /\ pc = "host"
    /\ Commit(serverPrepare(Cur))
    /\ UNCHANGED <<loopVars, bufVars, mainVars>>

\* serverSetCallback
SetCallback ==
    /\ pc = "host"
    /\ \E cb \in BOOLEAN : Commit([Cur EXCEPT !.cb = cb])
    /\ UNCHANGED <<loopVars, bufVars, mainVars>>

\* serverStart
Start ==
    /\ pc = "host"
    /\ \E h \in (IF _callback THEN PlainOps ELSE {Nop}) :
          Commit(_invokeCallback(Cur, "start", INVALID_SOCKET, INVALID_SOCKET,
                                 NoBuf, NoBuf, h))
    /\ UNCHANGED <<loopVars, bufVars, mainVars>>

\* serverAddServerSocket called by the host
AddServerSocket ==
    /\ pc = "host"
    /\ \E d \in {LowestFree(Cur), INVALID_SOCKET} :
          Commit(serverAddServerSocket(Cur, d))
    /\ UNCHANGED <<loopVars, bufVars, mainVars>>

\* serverCloseSocket called by the host
CloseSocket ==
    /\ pc = "host"
    /\ \E d \in -1..SOCKET_MAX : Commit(serverCloseSocket(Cur, d))
    /\ UNCHANGED <<loopVars, bufVars, mainVars>>

\* a descriptor the kernel cannot select on: set in one of the sets passed,
\* below nfds, and not open
BadFd == \E d \in 0.._highestSocket :
            d \in (_socketReadSet \cup _socketWriteSet) /\ kfd[d] = "closed"

\* serverExec when there is no socket: it returns 2 without polling
ExecNoSockets ==
    /\ _highestSocket < 0
    /\ Commit(Cur)
    /\ result' = 2
    /\ UNCHANGED <<fd, readSet, writeSet, nfds, stopFd, pc, phase>>

\* select() > 0: the loop starts with the copies of the two sets, in which
\* select cleared the bits below nfds of the descriptors that are not ready;
\* which ones these are is drawn when the loop tests the bit (Ready)
ExecSelectReady ==
    /\ _highestSocket >= 0
    /\ ~BadFd
    /\ readSet' = _socketReadSet
    /\ writeSet' = _socketWriteSet
    /\ nfds' = _highestSocket + 1
    /\ Commit(Cur)
    /\ pc' = "exec"
    /\ phase' = "in"
    /\ fd' = 0
    /\ UNCHANGED <<result, stopFd>>

\* select() = 0, the timeout: the idle event
ExecSelectTimeout ==
    /\ _highestSocket >= 0
    /\ ~BadFd
    /\ \E h \in (IF _callback THEN PlainOps ELSE {Nop}) :
          Commit(_invokeCallback(Cur, "idle", INVALID_SOCKET, INVALID_SOCKET,
                                 NoBuf, NoBuf, h))
    /\ result' = 1
    /\ UNCHANGED <<fd, readSet, writeSet, nfds, stopFd, pc, phase>>

\* select() < 0 with EINTR
ExecSelectEINTR ==
    /\ _highestSocket >= 0
    /\ ~BadFd
    /\ Commit(Cur)
    /\ result' = 1
    /\ UNCHANGED <<fd, readSet, writeSet, nfds, stopFd, pc, phase>>

\* a serverExec that treats every failure of select() as EINTR
ExecSelectError_Ignored ==
    /\ _highestSocket >= 0
    /\ Commit(logWrite(Cur, "select()"))
    /\ result' = 1
    /\ UNCHANGED <<fd, readSet, writeSet, nfds, stopFd, pc, phase>>

\* select() < 0 with another error: it is logged and serverExec returns 0
ExecSelectError ==
    /\ _highestSocket >= 0
    /\ Commit(logWrite(Cur, "select()"))
    /\ result' = 0
    /\ UNCHANGED <<fd, readSet, writeSet, nfds, stopFd, pc, phase>>

\* serverExec up to the descriptor loop
ExecBegin ==
    /\ pc = "host"
    /\ \/ ExecNoSockets
       \/ ExecSelectReady
       \/ ExecSelectTimeout
       \/ ExecSelectEINTR
       \/ ExecSelectError
    /\ UNCHANGED <<bufVars, mainVars>>

\* FD_ISSET(d, set) on a set select() returned: a bit below nfds is set if
\* it was set before and select found the descriptor ready (rdy); a bit
\* from nfds on is as it was before
Ready(set, d, rdy) == d \in set /\ (d < nfds => rdy)

\* the read half of one round of the descriptor loop
ExecInput ==
    /\ pc = "exec"
    /\ phase = "in"
    /\ \E rdy \in (IF fd \in readSet /\ fd < nfds THEN BOOLEAN ELSE {TRUE}) :
       IF Ready(readSet, fd, rdy)
       THEN IF _sockets[fd].isServer = 1
            THEN \E acc \in AcceptOutcomes(Cur, fd) :
                 \E h1 \in (IF _handleServerInput(Cur, fd, acc, Nop, Nop).evented
                            THEN BufOps ELSE {Nop}) :
                 \E h2 \in (IF _handleServerInput(Cur, fd, acc, h1, Nop).closing
                            THEN PlainOps ELSE {Nop}) :
                    Commit(_handleServerInput(Cur, fd, acc, h1, h2))
            ELSE \E rcv \in RecvOutcomes(Cur, fd) :
                 \E ok \in AllocOutcomes(rcv = "data") :
                 \E h1 \in (IF _handleClientInput(Cur, fd, rcv, ok, Nop, Nop).evented
                            THEN BufOps ELSE {Nop}) :
                 \E h2 \in (IF _handleClientInput(Cur, fd, rcv, ok, h1, Nop).closing
                            THEN PlainOps ELSE {Nop}) :
                    Commit(_handleClientInput(Cur, fd, rcv, ok, h1, h2))
       ELSE Commit(Cur)
    /\ phase' = "out"
    /\ UNCHANGED <<fd, readSet, writeSet, nfds, result, stopFd, pc, bufVars, mainVars>>

\* the write half of one round of the descriptor loop, and the loop test
ExecOutput ==
    /\ pc = "exec"
    /\ phase = "out"
    /\ \E rdy \in (IF fd \in writeSet /\ fd < nfds THEN BOOLEAN ELSE {TRUE}) :
       IF Ready(writeSet, fd, rdy)
       THEN \E n \in SendOutcomes(Cur, fd) :
            \E ok \in AllocOutcomes(bufHasData(_sockets[fd].oBuf)
                                    /\ n < _sockets[fd].oBuf.len) :
            \E h1 \in (IF _handleOutput(Cur, fd, n, ok, Nop, Nop).evented
                       THEN BufOps ELSE {Nop}) :
            \E h2 \in (IF _handleOutput(Cur, fd, n, ok, h1, Nop).closing
                       THEN PlainOps ELSE {Nop}) :
               Commit(_handleOutput(Cur, fd, n, ok, h1, h2))
       ELSE Commit(Cur)
    /\ IF fd + 1 <= _highestSocket'
       THEN /\ fd' = fd + 1
            /\ phase' = "in"
            /\ UNCHANGED <<readSet, writeSet, nfds, result, pc>>
       ELSE /\ fd' = 0
            /\ phase' = "in"
            /\ readSet' = {}
            /\ writeSet' = {}
            /\ nfds' = 0
            /\ result' = 1
            /\ pc' = "host"
    /\ UNCHANGED <<stopFd, bufVars, mainVars>>

\* serverStop is called: _removeAllSockets starts
StopBegin ==
    /\ pc = "host"
    /\ Commit(Cur)
    /\ pc' = "stop"
    /\ stopFd' = 0
    /\ UNCHANGED <<fd, readSet, writeSet, nfds, result, phase, bufVars, mainVars>>

\* one round of the loop of _removeAllSockets
StopStep ==
    /\ pc = "stop"
    /\ stopFd <= _highestSocket
    /\ IF stopFd \in _socketReadSet
       THEN \E h \in (IF _callback THEN PlainOps ELSE {Nop}) :
               Commit(_removeSocket(Cur, stopFd, h))
       ELSE Commit(Cur)
    /\ stopFd' = stopFd + 1
    /\ UNCHANGED <<fd, readSet, writeSet, nfds, result, pc, phase, bufVars, mainVars>>

\* the loop of _removeAllSockets ends and serverStop fires the stop event
StopEnd ==
    /\ pc = "stop"
    /\ stopFd > _highestSocket
    /\ \E h \in (IF _callback THEN PlainOps ELSE {Nop}) :
          Commit(_invokeCallback(Cur, "stop", INVALID_SOCKET, INVALID_SOCKET,
                                 NoBuf, NoBuf, h))
    /\ pc' = "host"
    /\ stopFd' = 0
    /\ UNCHANGED <<fd, readSet, writeSet, nfds, result, phase, bufVars, mainVars>>

\* the peer of a connection sends one byte; the k-th byte it sends is k
PeerSend ==
    /\ pc = "host"
    /\ \E d \in Fds :
          /\ kfd[d] = "conn"
          /\ psent[d] < MaxIn
          /\ rcvq' = [rcvq EXCEPT ![d] = Append(@, psent[d] + 1)]
          /\ psent' = [psent EXCEPT ![d] = @ + 1]
    /\ UNCHANGED <<_callback, _sockets, _socketReadSet, _socketWriteSet,
                   _highestSocket, kfd, trace, removed, appended, sent, rd, wr,
                   loopVars, bufVars, mainVars>>

Next ==
    \/ Prepare
    \/ SetCallback
    \/ Start
    \/ AddServerSocket
    \/ CloseSocket
    \/ ExecBegin
    \/ ExecInput
    \/ ExecOutput
    \/ StopBegin
    \/ StopStep
    \/ StopEnd
    \/ PeerSend

Spec == Init /\ [][Next]_vars

(***************************************************************************)
(* BufSpec: one buffer, b, driven through the buffer api.  bOp is the last *)
(* call, bRet what it returned (want: the bytes that were appended with    *)
(* success since the buffer was last empty, as they were before the call), *)
(* bPrev the buffer before the call, bHist those bytes after the call and  *)
(* bCount the number of appends they came in.                              *)
(***************************************************************************)
\* the chunks BufSpec appends
Chunks == UNION {[1..n -> 1..NByte] : n \in 0..MaxChunk}

BufAppend ==
    /\ \E chunk \in Chunks, isNull \in BOOLEAN, ok \in BOOLEAN :
          LET data == IF isNull THEN NULLPTR ELSE PtrTo(chunk)
              r == bufAppend(b, data, Len(chunk), ok)
              added == IF r.ret = 1 /\ ~isNull THEN chunk ELSE <<>>
          IN  /\ Len(bHist) + Len(chunk) <= MaxBufLen
              /\ b' = r.buf
              /\ bRet' = [ret |-> r.ret, null |-> TRUE, data |-> <<>>, len |-> 0,
                          want |-> bHist]
              /\ bHist' = bHist \o added
              /\ bCount' = IF added # <<>> THEN bCount + 1 ELSE bCount
    /\ bOp' = "append"
    /\ bPrev' = b
    /\ UNCHANGED <<progVars, mainVars>>

BufPeek ==
    /\ LET r == bufPeek(b)
       IN  /\ b' = r.buf
           /\ bRet' = [ret |-> 1, null |-> r.data.null,
                       data |-> BytesOf(r.data, r.len), len |-> r.len, want |-> bHist]
    /\ bOp' = "peek"
    /\ bPrev' = b
    /\ UNCHANGED <<bHist, bCount, progVars, mainVars>>

BufExtract ==
    /\ LET r == bufExtract(b)
       IN  /\ b' = r.buf
           /\ bRet' = [ret |-> 1, null |-> r.data.null,
                       data |-> BytesOf(r.data, r.len), len |-> r.len, want |-> bHist]
    /\ bOp' = "extract"
    /\ bPrev' = b
    /\ bHist' = <<>>
    /\ bCount' = 0
    /\ UNCHANGED <<progVars, mainVars>>

BufHasData ==
    /\ bRet' = [ret |-> IF bufHasData(b) THEN 1 ELSE 0, null |-> TRUE, data |-> <<>>,
                len |-> 0, want |-> bHist]
    /\ bOp' = "hasData"
    /\ bPrev' = b
    /\ UNCHANGED <<b, bHist, bCount, progVars, mainVars>>

BufClear ==
    /\ b' = bufClear(b)
    /\ bRet' = [ret |-> 1, null |-> TRUE, data |-> <<>>, len |-> 0, want |-> bHist]
    /\ bOp' = "clear"
    /\ bPrev' = b
    /\ bHist' = <<>>
    /\ bCount' = 0
    /\ UNCHANGED <<progVars, mainVars>>

BufNext ==
    \/ BufAppend
    \/ BufPeek
    \/ BufExtract
    \/ BufHasData
    \/ BufClear

BufSpec == Init /\ [][BufNext]_vars

(***************************************************************************)
(* ReadSpec: socketRead alone on one connection.  The listening socket 0   *)
(* has accepted the client RdFd; the peer sends bytes, socketRead is       *)
(* called on the client whatever it returned before, and the handler       *)
(* extracts the input buffer.                                              *)
(***************************************************************************)
RdFd == 1

\* the state serverPrepare leaves
Prepared ==
    [cb |-> FALSE, sockets |-> [d \in Fds |-> ZeroSocket], rset |-> {},
     wset |-> {}, highest |-> INVALID_SOCKET,
     kfd |-> [d \in KFds |-> "closed"], rcvq |-> [d \in Fds |-> <<>>],
     psent |-> [d \in Fds |-> 0],
     trace |-> <<>>, removed |-> [d \in Fds |-> 0],
     appended |-> [d \in Fds |-> <<>>], sent |-> [d \in Fds |-> <<>>],
     rd |-> NoRead, wr |-> NoWrite, evented |-> FALSE, closing |-> FALSE]

\* the state after serverAddServerSocket and the accept of one client
Accepted ==
    _handleServerInput(serverAddServerSocket(Prepared, 0), 0,
                       [kind |-> "conn", fd |-> RdFd], Nop, Nop)

ReadInit ==
    /\ _callback = Accepted.cb
    /\ _sockets = Accepted.sockets
    /\ _socketReadSet = Accepted.rset
    /\ _socketWriteSet = Accepted.wset
    /\ _highestSocket = Accepted.highest
    /\ kfd = Accepted.kfd
    /\ rcvq = Accepted.rcvq
    /\ psent = Accepted.psent
    /\ trace = <<>>
    /\ removed = Accepted.removed
    /\ appended = Accepted.appended
    /\ sent = Accepted.sent
    /\ rd = NoRead
    /\ wr = NoWrite
    /\ fd = 0
    /\ readSet = {}
    /\ writeSet = {}
    /\ nfds = 0
    /\ result = -1
    /\ stopFd = 0
    /\ pc = "host"
    /\ phase = "in"
    /\ b = _resetBuf
    /\ bOp = "init"
    /\ bRet = [ret |-> 1, null |-> TRUE, data |-> <<>>, len |-> 0, want |-> <<>>]
    /\ bPrev = _resetBuf
    /\ bHist = <<>>
    /\ bCount = 0
    /\ MainInit

\* the peer sends one byte
RdPeerSend ==
    /\ psent[RdFd] < RdMaxIn
    /\ \E v \in 1..NByte : rcvq' = [rcvq EXCEPT ![RdFd] = Append(@, v)]
    /\ psent' = [psent EXCEPT ![RdFd] = @ + 1]
    /\ UNCHANGED <<_callback, _sockets, _socketReadSet, _socketWriteSet,
                   _highestSocket, kfd, trace, removed, appended, sent, rd, wr,
                   loopVars, bufVars, mainVars>>

\* socketRead(RdFd, &iBuf)
RdRead ==
    /\ \E rcv \in RecvOutcomes(Cur, RdFd), ok \in BOOLEAN :
          Commit(socketRead(Cur, RdFd, rcv, ok).s)
    /\ UNCHANGED <<loopVars, bufVars, mainVars>>

\* the handler takes the input buffer
RdExtract ==
    /\ bufHasData(_sockets[RdFd].iBuf)
    /\ Commit([Cur EXCEPT !.sockets[RdFd].iBuf = bufExtract(@).buf])
    /\ UNCHANGED <<loopVars, bufVars, mainVars>>

ReadNext ==
    \/ RdPeerSend
    \/ RdRead
    \/ RdExtract

ReadSpec == ReadInit /\ [][ReadNext]_vars

(***************************************************************************)
(* FairSpec: the reactor as main.c drives it.  serverPrepare is called     *)
(* once and the script installs its handler, before the first tick; the    *)
(* host keeps calling serverExec and                                       *)
(* calls serverStop when serverExec returns anything but 1; the loops run  *)
(* to their end; a descriptor whose bit is set in the write set passed to  *)
(* select() again and again is found write-ready again and again.          *)
(***************************************************************************)
\* a tick in which select() finds a descriptor ready
ExecReadyTick == pc = "host" /\ ExecSelectReady /\ UNCHANGED <<bufVars, mainVars>>

\* the host loop of _exec ends after a serverExec that did not return 1
StopAfterFailure == StopBegin /\ result \in {0, 2}

\* the descriptor loop and the loop of _removeAllSockets end
LoopsEnd == []<>(pc = "host")

\* the descriptor loop is about to test the bit of d in writeSet, which was
\* set when select() was called
OutputPending(d) == pc = "exec" /\ phase = "out" /\ fd = d /\ d \in writeSet

\* the last step was the output handling of d
OutputHandled(d) == wr.on /\ wr.fd = d

\* strong fairness of the output handling of a write-ready d: if the loop
\* tests a set bit of d again and again, it finds d write-ready again and
\* again
WriteReadyFair(d) == <>[]~OutputPending(d) \/ []<>OutputHandled(d)

\* providerPrepare has run the script, which installed its handler
FairInit == _callback = TRUE /\ InitRest

FairNext ==
    \/ AddServerSocket
    \/ CloseSocket
    \/ ExecBegin
    \/ ExecInput
    \/ ExecOutput
    \/ StopBegin
    \/ StopStep
    \/ StopEnd
    \/ PeerSend

Fairness ==
    /\ WF_vars(ExecBegin)
    /\ WF_vars(ExecReadyTick)
    /\ WF_vars(StopAfterFailure)
    /\ LoopsEnd
    /\ \A d \in Fds : WriteReadyFair(d)

FairSpec == FairInit /\ [][FairNext]_vars /\ Fairness

(***************************************************************************)
(* Claims about the buffer.                                                *)
(***************************************************************************)
\* C1: after any sequence of successful appends to an empty buffer,
\* bufExtract returns exactly the appended chunks in append order with their
\* total length, and leaves the buffer empty: length 0, capacity 0, no
\* storage, bufHasData false.
C1_RoundTrip ==
    bOp = "extract" =>
        /\ bRet.data = bRet.want
        /\ bRet.len = Len(bRet.want)
        /\ b.len = 0
        /\ b.size = 0
        /\ b.data.null
        /\ ~bufHasData(b)

\* an extract of three or more bytes that came in two or more appends, so
\* that the storage grew past one chunk
C1_Witness ==
    /\ bOp = "extract"
    /\ Len(bRet.want) > IO_BUF_SIZE
    /\ bRet.data = bRet.want
    /\ \E i \in 1..Len(bRet.want) : bRet.want[i] # bRet.want[1]

\* C2: a bufAppend that fails because the allocator refuses to grow the
\* storage leaves the stored bytes, the length and the capacity as they
\* were, so the old contents are all there for a retry or an extract.
C2_FailedAppendKeeps ==
    /\ (bOp = "append" /\ bRet.ret = 0) => (b = bPrev /\ BufBytes(b) = bRet.want)
    /\ BufBytes(b) = bHist

\* a failed append to a buffer that holds data
C2_Witness ==
    /\ bOp = "append"
    /\ bRet.ret = 0
    /\ b.len > 0
    /\ BufBytes(b) = bHist

(***************************************************************************)
(* Claims about the reactor.                                               *)
(***************************************************************************)
\* the client whose input the last step handled and destroyed, if any
ReadDestroyed ==
    {d \in Fds : rd.on /\ rd.fd = d /\ removed[d] = 1 /\ d \notin _socketReadSet}

\* C3: between a descriptor's _addSocket and its next _addSocket,
\* _removeSocket runs for it at most once, so its Close event fires once and
\* its descriptor is closed once; in particular the tick whose input handling
\* destroyed a client does not run _removeSocket for it a second time.
C3_RemovedOnce ==
    [][\A d \in ReadDestroyed : removed'[d] <= 1]_vars

\* C4: an Accept, Read or Write event is dispatched only for a client that is
\* in the read set at the moment of the dispatch, and none follows the Close
\* event of its registration; in particular the tick whose input handling
\* destroyed a client dispatches no further event for it.
C4_EventsOnlyWhileRegistered ==
    [][\A d \in ReadDestroyed :
          \A i \in 1..Len(trace') :
             (/\ trace'[i].op \in {"socket_accept", "socket_read", "socket_write"}
              /\ trace'[i].cFd = d)
                => trace'[i].live]_vars

\* C5: for every registered client, the bytes send() accepted followed by the
\* bytes in its output buffer are the bytes the handler appended, in order.
C5_NoOutputLost ==
    \A d \in Fds :
        (d \in _socketReadSet /\ _sockets[d].isServer = 0) =>
            sent[d] \o BufBytes(_sockets[d].oBuf) = appended[d]

\* C6: when send() accepts only the first n bytes of the output buffer,
\* 0 < n < its length, and the Write handler leaves the buffer alone, the
\* buffer then holds exactly the bytes after the first n, in order, and the
\* descriptor is still in the write set.
C6_PartialWriteKeepsSuffix ==
    (wr.on /\ wr.n > 0 /\ wr.n < Len(wr.oBefore) /\ ~wr.touched) =>
        /\ wr.oAfter = Drop(wr.oBefore, wr.n)
        /\ wr.inWriteSet

\* C7: a socketRead whose append of the peeked bytes fails takes no byte off
\* the receive queue and leaves the input buffer as it was; a socketRead
\* that succeeds takes off the queue exactly the bytes it appended.
C7_PeekThenConsume ==
    rd.on =>
        /\ rd.ret = 0 => (rd.qAfter = rd.qBefore /\ rd.iAfter = rd.iBefore)
        /\ rd.ret = 1 =>
              /\ rd.n = Min(Len(rd.qBefore), IO_BUF_SIZE)
              /\ rd.n > 0
              /\ rd.iAfter = rd.iBefore \o SubSeq(rd.qBefore, 1, rd.n)
              /\ rd.qAfter = Drop(rd.qBefore, rd.n)

\* a read that failed in the append, with more than IO_BUF_SIZE bytes queued
\* and bytes already buffered, and every byte still queued after it
C7_Witness ==
    /\ rd.on
    /\ rd.ret = 0
    /\ rd.n > 0
    /\ Len(rd.qBefore) > IO_BUF_SIZE
    /\ rd.iBefore # <<>>
    /\ rcvq[RdFd] = rd.qBefore

\* C8: a client with keepAlive cleared and a non-empty output buffer stays
\* registered until a write has drained the buffer, so that the buffered
\* output is written before its Close event: an output handling whose send()
\* made progress destroys the client only if send() took every buffered byte.
C8_ClosedOnlyWhenWritten ==
    (wr.on /\ wr.ret = 1 /\ wr.oBefore # <<>> /\ ~wr.touched /\ ~wr.live) =>
        wr.n = Len(wr.oBefore)

\* a client for which serverCloseSocket was called: registered, keepAlive 0
CloseRequested(d) ==
    /\ d \in _socketReadSet
    /\ _sockets[d].isServer = 0
    /\ _sockets[d].keepAlive = 0

\* C9: a registered client for which serverCloseSocket was called is
\* eventually removed by _removeSocket, which fires its Close event, also
\* when its peer sends nothing more.
C9_CloseRequestedLeadsToClose ==
    \A d \in Fds : CloseRequested(d) ~> (d \notin _socketReadSet /\ removed[d] >= 1)

\* an output handling that wrote the pending output of a client marked for
\* closing, fired its Close event and removed it
C9_Witness ==
    /\ wr.on
    /\ wr.ret = 1
    /\ wr.oBefore # <<>>
    /\ wr.n = Len(wr.oBefore)
    /\ ~wr.live
    /\ removed[wr.fd] = 1
    /\ \E i \in 1..Len(trace) : trace[i].op = "socket_close" /\ trace[i].cFd = wr.fd

\* C10: _highestSocket is the greatest descriptor of the read set, or
\* INVALID_SOCKET when the read set is empty.
C10_HighestIsMax ==
    IF _socketReadSet = {}
    THEN _highestSocket = INVALID_SOCKET
    ELSE /\ _highestSocket \in _socketReadSet
         /\ \A d \in _socketReadSet : d <= _highestSocket

\* the highest descriptor was removed in the last step and _highestSocket
\* fell to a lower registered descriptor, or to the sentinel with nothing
\* registered below
C10_Witness ==
    /\ \E i \in 1..Len(trace) : trace[i].op = "close" /\ trace[i].cFd = 1
    /\ 1 \notin _socketReadSet
    /\ removed[1] = 1
    /\ \/ _highestSocket = 0 /\ 0 \in _socketReadSet
       \/ _highestSocket = INVALID_SOCKET /\ kfd[0] = "closed" /\ removed[0] = 1

(***************************************************************************)
(* Claims about one tick.                                                  *)
(***************************************************************************)
\* the registry, the interest sets and the kernel are left as they are
ProgramUnchanged ==
    UNCHANGED <<_callback, _sockets, _socketReadSet, _socketWriteSet,
                _highestSocket, kfd, rcvq, psent>>

\* the events the last step dispatched
Events(ops) == {i \in 1..Len(trace) : trace[i].op \in ops}

\* C11: serverExec returns 2 exactly when no descriptor is registered when
\* it is called; it then polls nothing, fires no event and changes nothing;
\* with a descriptor registered it goes on to select() and never returns 2.
C11_NoConnections ==
    [][ExecBegin =>
          /\ ExecNoSockets <=> _socketReadSet = {}
          /\ ExecNoSockets => (result' = 2 /\ trace' = <<>> /\ ProgramUnchanged)
          /\ _socketReadSet # {} => (ExecSelectReady \/ result' \in {0, 1})]_vars

\* a tick that returned 2 after the last registered socket was destroyed
C11_Witness ==
    /\ pc = "host"
    /\ result = 2
    /\ _socketReadSet = {}
    /\ \E d \in Fds : removed[d] >= 1

\* a step that is a tick whose select() timed out
TimeoutTick == pc = "host" /\ ExecSelectTimeout /\ UNCHANGED <<bufVars, mainVars>>

\* the events of a socket: accept, read, write and close
SocketEvents == {"socket_accept", "socket_read", "socket_write", "socket_close"}

\* C12 as stated: a tick whose select() times out fires one idle event (a
\* handler being installed) and no socket event, leaves the registry and both
\* interest sets as they were and returns 1.
C12_IdleTickChangesNothing ==
    [][TimeoutTick =>
          /\ _callback => Cardinality(Events({"idle"}))' = 1
          /\ Events(SocketEvents)' = {}
          /\ UNCHANGED <<_sockets, _socketReadSet, _socketWriteSet>>
          /\ result' = 1]_vars

\* C12: a tick whose select() times out returns 1, dispatches exactly one
\* idle event if a handler is installed and nothing otherwise, dispatches no
\* socket event, removes no socket and touches no buffer; the registry and
\* the sets differ afterwards only by what the idle handler did through the
\* api: at most one listening socket added, or keepAlive cleared and write
\* interest set for descriptors that are not listening sockets.
C12_IdleTick ==
    [][TimeoutTick =>
          /\ result' = 1
          /\ Events(SocketEvents)' = {}
          /\ Cardinality(Events({"idle"}))' = (IF _callback THEN 1 ELSE 0)
          /\ ~_callback => ProgramUnchanged
          /\ _socketReadSet \subseteq _socketReadSet'
          /\ Cardinality(_socketReadSet' \ _socketReadSet) <= 1
          /\ \A d \in _socketReadSet' \ _socketReadSet : _sockets'[d].isServer = 1
          /\ _socketWriteSet \subseteq _socketWriteSet'
          /\ \A d \in _socketWriteSet' \ _socketWriteSet :
                d \notin _socketReadSet' \/ _sockets'[d].isServer = 0
          /\ \A d \in _socketReadSet :
                /\ _sockets'[d].iBuf = _sockets[d].iBuf
                /\ _sockets'[d].oBuf = _sockets[d].oBuf
                /\ _sockets'[d].isServer = _sockets[d].isServer
                /\ _sockets'[d].keepAlive <= _sockets[d].keepAlive
                /\ (_sockets'[d].keepAlive < _sockets[d].keepAlive
                        => d \in _socketWriteSet')
                /\ kfd'[d] = kfd[d]
                /\ removed'[d] = removed[d]]_vars

\* a timed-out tick with a client registered has dispatched its idle event
C12_Witness ==
    /\ pc = "host"
    /\ result = 1
    /\ Len(trace) = 1
    /\ trace[1].op = "idle"
    /\ \E d \in _socketReadSet : _sockets[d].isServer = 0

(***************************************************************************)
(* Claims about the registry.                                              *)
(***************************************************************************)
\* the descriptors registered as listening sockets
Listening == {d \in _socketReadSet : _sockets[d].isServer = 1}

\* C13: a descriptor registered as a listening socket is never in the
\* write set.
C13_ListenNotInWriteSet == Listening \cap _socketWriteSet = {}

\* the state in which _handleServerInput dispatches the accept event for the
\* connection c it accepted on sFd: socketAccept, then _addSocket
AcceptDispatch(s, sFd, c) ==
    _addSocket(socketAccept(s, sFd, [kind |-> "conn", fd |-> c]).s, c)

\* C14: whenever an accept event is dispatched for a client descriptor, the
\* record the handler is given has keepAlive 1, isServer 0 and empty input
\* and output buffers, whatever the record held before the accept.
C14_AcceptSeesFreshRecord ==
    [][\A i \in Events({"socket_accept"})' :
          LET c == trace'[i].cFd
              n == AcceptDispatch(Cur, trace'[i].sFd, c)
          IN  /\ n.ret = 1
              /\ n.s.sockets[c].keepAlive = 1
              /\ n.s.sockets[c].isServer = 0
              /\ ~bufHasData(n.s.sockets[c].iBuf)
              /\ ~bufHasData(n.s.sockets[c].oBuf)
              /\ n.s.sockets[c].iBuf = _resetBuf
              /\ n.s.sockets[c].oBuf = _resetBuf]_vars

\* an accept event was dispatched for descriptor 0, which can only be a
\* descriptor that an earlier socket had
C14_Witness ==
    /\ pc = "exec"
    /\ \E i \in Events({"socket_accept"}) : trace[i].cFd = 0

(***************************************************************************)
(* Claims about failures.                                                  *)
(***************************************************************************)
\* a step of the descriptor loop in which the registered socket d fails:
\* socketRead returns 0 (EOF, recv error, refused allocation), socketAccept
\* logs an error, or socketWrite returns 0 (send error, nothing written)
FatalStep(d) ==
    /\ pc = "exec"
    /\ fd = d
    /\ d \in _socketReadSet
    /\ \/ phase = "in" /\ rd'.on /\ rd'.fd = d /\ rd'.ret = 0
       \/ /\ phase = "in"
          /\ _sockets[d].isServer = 1
          /\ Len(trace') > 0
          /\ trace'[1].op = "log"
       \/ phase = "out" /\ wr'.on /\ wr'.fd = d /\ wr'.ret = 0

\* C15: when a registered socket fails during a tick, that socket and only
\* that one is destroyed, by one _removeSocket (one close event, its
\* descriptor closed); every other descriptor's record, membership in both
\* sets and kernel state are exactly as the close handler left them, that is
\* unchanged by the removal; and a tick that ran the loop returns 1.
C15_FatalDestroysOnlyThatSocket ==
    [][/\ pc = "exec" /\ pc' = "host" => result' = 1
       /\ \A d \in Fds : FatalStep(d) =>
             /\ d \notin _socketReadSet'
             /\ d \notin _socketWriteSet'
             /\ removed'[d] = 1
             /\ kfd'[d] = "closed"
             /\ Cardinality(Events({"socket_close"}))' = (IF _callback THEN 1 ELSE 0)
             /\ \A i \in Events({"socket_close"})' :
                   d \in {trace'[i].sFd, trace'[i].cFd}
             /\ \E h \in (IF _callback THEN PlainOps ELSE {Nop}) :
                   LET s1 == HandlerRun(Cur, d, h)
                   IN  \A e \in Fds \ {d} :
                          /\ _sockets'[e] = s1.sockets[e]
                          /\ (e \in _socketReadSet') = (e \in s1.rset)
                          /\ (e \in _socketWriteSet') = (e \in s1.wset)
                          /\ kfd'[e] = s1.kfd[e]]_vars

\* a listening socket was destroyed by a failed accept while a client with
\* write interest was registered
C15_Witness ==
    /\ pc = "exec"
    /\ Len(trace) > 0
    /\ trace[1].op = "log"
    /\ \E i \in Events({"socket_close"}) : trace[i].sFd # INVALID_SOCKET
    /\ \E e \in _socketReadSet \cap _socketWriteSet :
          bufHasData(_sockets[e].oBuf)

\* a step of the descriptor loop in which accept() on the listening socket
\* fd fails with EAGAIN
EagainStep ==
    /\ pc = "exec"
    /\ phase = "in"
    /\ fd \in Listening
    /\ kfd[fd] = "listen"
    /\ Commit(_handleServerInput(Cur, fd, [kind |-> "eagain", fd |-> -1], Nop, Nop))
    /\ phase' = "out"

\* C16: when accept() on a ready listening socket fails with EAGAIN nothing
\* is done: no event, no change of a record or of a set, the listening
\* socket stays registered, and close() is called on no descriptor.
C16_EagainNoAction ==
    [][EagainStep =>
          /\ Events(SocketEvents)' = {}
          /\ ProgramUnchanged
          /\ fd \in _socketReadSet'
          /\ \A i \in 1..Len(trace') : trace'[i].op # "close"]_vars

\* a step of the descriptor loop in which accept() on the listening socket
\* fd returns a connection whose descriptor is SOCKET_MAX, out of range
OutOfRangeStep ==
    /\ pc = "exec"
    /\ phase = "in"
    /\ fd \in Listening
    /\ kfd[fd] = "listen"
    /\ LowestFree(Cur) = SOCKET_MAX
    /\ Commit(_handleServerInput(Cur, fd, [kind |-> "conn", fd |-> SOCKET_MAX],
                                 Nop, Nop))
    /\ phase' = "out"

\* the close() calls of the last step
Closes == {i \in 1..Len(trace) : trace[i].op = "close"}

\* C17: when accept() yields a descriptor that is not below SOCKET_MAX,
\* _addSocket refuses it and the descriptor is closed exactly once: it is
\* not left open, no accept or close event is fired, and the registry, both
\* sets and _highestSocket are unchanged.
C17_OutOfRangeAcceptClosed ==
    [][OutOfRangeStep =>
          /\ Cardinality(Closes)' = 1
          /\ \A i \in Closes' : trace'[i].cFd = SOCKET_MAX /\ trace'[i].live
          /\ kfd'[SOCKET_MAX] = "closed"
          /\ Events(SocketEvents)' = {}
          /\ UNCHANGED <<_sockets, _socketReadSet, _socketWriteSet, _highestSocket>>
          /\ \A d \in Fds : kfd'[d] = kfd[d]]_vars

\* a connection was accepted while every descriptor below SOCKET_MAX was in
\* use, and was closed
C17_Witness ==
    /\ pc = "exec"
    /\ phase = "out"
    /\ fd \in Listening
    /\ \A d \in Fds : kfd[d] # "closed"
    /\ \E i \in Closes : trace[i].cFd = SOCKET_MAX /\ trace[i].live

\* a step that is a tick whose select() failed
PollFailTick ==
    pc = "host" /\ (ExecSelectEINTR \/ ExecSelectError) /\ UNCHANGED <<bufVars, mainVars>>

\* every event there is
AllEvents == SocketEvents \cup {"start", "idle", "stop"}

\* C18: when select() fails, no socket is read, written, accepted or
\* destroyed and no event is fired: the registry, the sets and the kernel
\* state are as before and every registered socket stays open; serverExec
\* returns 1 if the failure is EINTR and 0, after a log message, otherwise.
C18_PollFailureTouchesNothing ==
    [][PollFailTick =>
          /\ ProgramUnchanged
          /\ Events(AllEvents)' = {}
          /\ Closes' = {}
          /\ ~rd'.on
          /\ ~wr'.on
          /\ removed' = removed
          /\ pc' = "host"
          /\ result' \in {0, 1}
          /\ result' = 0 <=> (trace' # <<>> /\ trace'[1].op = "log")
          /\ ExecSelectError => result' = 0
          /\ ExecSelectEINTR => result' = 1]_vars

\* select() failed while a listening socket and a client with pending output
\* were registered, and serverExec returned 0
C18_Witness ==
    /\ pc = "host"
    /\ result = 0
    /\ Len(trace) = 1
    /\ trace[1].op = "log"
    /\ Listening # {}
    /\ \E d \in _socketReadSet \cap _socketWriteSet :
          _sockets[d].isServer = 0 /\ kfd[d] = "conn" /\ bufHasData(_sockets[d].oBuf)

\* the last step wrote a log message before it fired a close event or
\* closed a descriptor
LoggedFirst ==
    \E i \in 1..Len(trace) :
        /\ trace[i].op = "log"
        /\ \A j \in 1..Len(trace) : trace[j].op \in {"socket_close", "close"} => i < j

\* C19: whenever a registered socket is destroyed because it failed (EOF,
\* recv error, refused allocation during the read, send error, nothing
\* written, accept error) and whenever serverExec returns 0, a log message
\* is written first, before the close event and before the descriptor is
\* closed.
C19_FatalIsLogged ==
    [][/\ \A d \in Fds : FatalStep(d) => LoggedFirst'
       /\ (pc = "host" /\ ExecSelectError) => LoggedFirst']_vars

(***************************************************************************)
(* Claims about serverStop.                                                *)
(***************************************************************************)
\* the loop of _removeAllSockets is over: serverStop is about to fire the
\* stop event and return
StopLoopDone == pc = "stop" /\ stopFd > _highestSocket

\* C20: serverStop destroys every registered socket, with one close event
\* for each, and fires the stop event only after these; when the loop of
\* _removeAllSockets is over and the stop event is fired, both sets are empty
\* and _highestSocket is INVALID_SOCKET.
C20_StopDestroysAll ==
    [][/\ (pc = "stop" /\ ~StopLoopDone /\ stopFd \in _socketReadSet) =>
             /\ stopFd \notin _socketReadSet'
             /\ removed'[stopFd] = 1
             /\ _callback => Cardinality(Events({"socket_close"}))' = 1
             /\ \A i \in Events({"socket_close"})' :
                   stopFd \in {trace'[i].sFd, trace'[i].cFd}
             /\ Events({"stop"})' = {}
       /\ (StopLoopDone /\ pc' = "host") =>
             /\ _socketReadSet = {}
             /\ _socketWriteSet = {}
             /\ _highestSocket = INVALID_SOCKET
             /\ Events({"socket_close"})' = {}
             /\ _callback => Cardinality(Events({"stop"}))' = 1]_vars

(***************************************************************************)
(* Claims about the events.                                                *)
(***************************************************************************)
\* a step of the program, whose events are in trace' (a step of a peer
\* leaves the trace of the step before)
ProgramStep == ~PeerSend

\* C21: every close event carries exactly one descriptor: the descriptor of
\* a socket registered as listening is passed as sFd with cFd none, any other
\* descriptor is passed as cFd with sFd none.
C21_CloseCarriesOneDescriptor ==
    [][ProgramStep =>
          \A i \in Events({"socket_close"})' :
             /\ (trace'[i].sFd = INVALID_SOCKET) # (trace'[i].cFd = INVALID_SOCKET)
             /\ trace'[i].sFd # INVALID_SOCKET => trace'[i].sFd \in Listening
             /\ trace'[i].cFd # INVALID_SOCKET => trace'[i].cFd \notin Listening]_vars

\* serverStop has just destroyed a listening socket
C21_Witness ==
    /\ pc = "stop"
    /\ \E i \in Events({"socket_close"}) :
          trace[i].sFd # INVALID_SOCKET /\ trace[i].cFd = INVALID_SOCKET

\* C22: in every event the handler is given, sFd is set only in accept and
\* close events and cFd only in accept, read, write and close events; in
\* start, stop and idle events both are INVALID_SOCKET.
C22_DescriptorFieldsByEvent ==
    \A i \in Events(AllEvents) :
        /\ trace[i].sFd # INVALID_SOCKET =>
              trace[i].op \in {"socket_accept", "socket_close"}
        /\ trace[i].cFd # INVALID_SOCKET =>
              trace[i].op \in {"socket_accept", "socket_read", "socket_write",
                               "socket_close"}
        /\ trace[i].op \in {"start", "stop", "idle"} =>
              trace[i].sFd = INVALID_SOCKET /\ trace[i].cFd = INVALID_SOCKET

\* a read event was dispatched: its cFd is set and its sFd is not
C22_Witness ==
    \E i \in Events({"socket_read"}) :
        trace[i].cFd # INVALID_SOCKET /\ trace[i].sFd = INVALID_SOCKET

\* C23: in every event the handler is given, iBuf and oBuf are buffers
\* exactly when cFd is set and null exactly when it is not.
C23_BuffersIffClient ==
    \A i \in Events(AllEvents) :
        /\ ~trace[i].iBuf.null <=> trace[i].cFd # INVALID_SOCKET
        /\ ~trace[i].oBuf.null <=> trace[i].cFd # INVALID_SOCKET

\* the descriptors registered as clients
Clients == {d \in _socketReadSet : _sockets[d].isServer = 0}

\* C24: a write event is dispatched for a registered client only if the
\* output handling that dispatched it sent at least one byte to that client:
\* the output buffer held data and send() took some of it.
C24_WriteEventMeansSent ==
    [][ProgramStep =>
          \A i \in Events({"socket_write"})' :
             trace'[i].cFd \in Clients =>
                /\ wr'.on
                /\ wr'.fd = trace'[i].cFd
                /\ wr'.oBefore # <<>>
                /\ wr'.n > 0]_vars

(***************************************************************************)
(* Claims about the api.                                                   *)
(***************************************************************************)
\* C25: serverCloseSocket on a descriptor registered as a listening socket
\* does nothing: records, both sets, _highestSocket and the descriptors are
\* as before; a listening socket always has keepAlive 1, so that no later
\* tick removes it for a close request.
C25_CloseListeningIsNoOp ==
    \A d \in Listening :
        LET s == serverCloseSocket(Cur, d)
        IN  /\ s.sockets = _sockets
            /\ s.rset = _socketReadSet
            /\ s.wset = _socketWriteSet
            /\ s.highest = _highestSocket
            /\ s.kfd = kfd
            /\ s.trace = <<>>
            /\ _sockets[d].keepAlive = 1

\* the host is between two api calls with a listening socket registered and
\* a client on which serverCloseSocket has acted
C25_Witness ==
    /\ pc = "host"
    /\ trace = <<>>
    /\ \E d \in Listening : d \notin _socketWriteSet
    /\ \E c \in Clients : _sockets[c].keepAlive = 0 /\ c \in _socketWriteSet

\* the statics of server.c are as serverPrepare leaves them
IsPrepared ==
    /\ _callback = FALSE
    /\ _sockets = [d \in Fds |-> ZeroSocket]
    /\ _socketReadSet = {}
    /\ _socketWriteSet = {}
    /\ _highestSocket = INVALID_SOCKET

\* C26: serverPrepare leaves the records zeroed, both sets empty and
\* _highestSocket = INVALID_SOCKET whatever the state before; applied to the
\* state it leaves it changes nothing; and a serverExec called in that state
\* returns 2.
C26_PrepareResets ==
    [][/\ Prepare => IsPrepared'
       /\ IsPrepared => serverPrepare(Cur) = Cur
       /\ serverPrepare(serverPrepare(Cur)) = serverPrepare(Cur)
       /\ (IsPrepared /\ ExecBegin) => (result' = 2 /\ IsPrepared')]_vars

\* serverPrepare has run while sockets were registered: nothing is
\* registered and their descriptors are still open
C26_Witness ==
    /\ pc = "host"
    /\ IsPrepared
    /\ \E d \in Fds : kfd[d] = "conn"
    /\ \E d \in Fds : kfd[d] = "listen"

(***************************************************************************)
(* More claims about the buffer.                                           *)
(***************************************************************************)
\* C27: after any sequence of bufAppend (succeeding or failing), bufPeek,
\* bufExtract, bufHasData and bufClear, size >= len, and data is NULL exactly
\* when size is 0.
C27_CapacityInvariant ==
    /\ b.size >= b.len
    /\ b.data.null <=> b.size = 0
    /\ ~b.data.null => Len(b.data.mem) = b.size

\* an append failed on a buffer that holds data and has room to spare
C27_Witness ==
    /\ bOp = "append"
    /\ bRet.ret = 0
    /\ b.len > 0
    /\ b.size > b.len

\* C28: bufExtract on an empty buffer returns NULL, leaves the buffer as it
\* was, and leaves the caller's length destination as it was (bRet.len is the
\* caller's variable, which holds what the previous call stored in it).
C28_EmptyExtractTouchesNothing ==
    [][(BufExtract /\ ~bufHasData(b)) =>
          /\ bRet'.null
          /\ b' = b
          /\ bRet'.len = bRet.len]_vars

\* C29: bufAppend with len = 0 or data = NULL, on a buffer in any state,
\* returns 1 and leaves data, len and size as they were, whatever the
\* allocator would have answered (it is not asked); and a BufAppend step that
\* appended nothing and returned 1 left the buffer as it was.
C29_EmptyAppendIsNoOp ==
    /\ \A chunk \in Chunks, isNull \in BOOLEAN, ok \in BOOLEAN :
          LET data == IF isNull THEN NULLPTR ELSE PtrTo(chunk)
          IN  (isNull \/ Len(chunk) = 0) =>
                 bufAppend(b, data, Len(chunk), ok) = [ret |-> 1, buf |-> b]
    /\ (bOp = "append" /\ bRet.ret = 1 /\ BufBytes(b) = BufBytes(bPrev)) => b = bPrev

\* an append of nothing returned 1 on a buffer that holds data
C29_Witness ==
    /\ bOp = "append"
    /\ bRet.ret = 1
    /\ b = bPrev
    /\ b.len > 0

(***************************************************************************)
(* Claims about the dispatch of events.                                    *)
(***************************************************************************)
\* what the handler h, run for descriptor d in the current state, leaves
HandlerLeaves(d, h) == HandlerRun(Cur, d, h)

\* the handler's calls dispatch no event, destroy no socket and do no I/O
HandlerOnlyRequests(d, h) ==
    LET s == HandlerLeaves(d, h)
    IN  /\ \A i \in 1..Len(s.trace) : s.trace[i].op \notin AllEvents
        /\ s.closing = Cur.closing
        /\ s.evented = Cur.evented
        /\ Cur.rset \subseteq s.rset
        /\ \A e \in Fds : s.removed[e] <= removed[e]
        /\ s.rcvq = rcvq
        /\ s.psent = psent
        /\ \A e \in KFds : kfd[e] # "closed" => s.kfd[e] = kfd[e]

\* the descriptors a round of a loop for descriptor d deals with in the step
\* taken: d and, for a listening socket, the client accepted in the round
RoundOf(d) == {d} \cup {trace'[i].cFd : i \in Events({"socket_accept"})'}

\* every socket event of the step concerns the round's descriptors and no
\* other descriptor is destroyed
OnlyRound(d) ==
    /\ \A i \in Events(SocketEvents)' :
          trace'[i].sFd \in RoundOf(d) \/ trace'[i].cFd \in RoundOf(d)
    /\ \A e \in Fds \ RoundOf(d) : removed'[e] <= removed[e]

\* the step is ExecInput or ExecOutput: one half of the round for fd
ExecRound == pc = "exec"

\* the step is StopStep: the round of _removeAllSockets for stopFd
StopRound == pc = "stop" /\ stopFd <= _highestSocket

\* C30: handler invocations are never nested and never overlap: nothing a
\* handler may call (the buffer operations, serverCloseSocket,
\* serverAddServerSocket) dispatches an event, destroys a socket or does I/O,
\* so the handler returns before the loop goes on; and in the round of the
\* loop for one descriptor every socket event concerns that descriptor (or
\* the client accepted on it) and no other descriptor is destroyed, whatever
\* the handler asked for.
C30_DispatchNotNested ==
    /\ [](\A d \in Fds, h \in BufOps : HandlerOnlyRequests(d, h))
    /\ [][/\ ExecRound => OnlyRound(fd)
          /\ StopRound => OnlyRound(stopFd)]_vars

\* an event of one client was dispatched in the round just done while another
\* client, asked to be closed, is still registered
C30_Witness ==
    /\ pc = "exec"
    /\ \E i \in Events(SocketEvents), e \in Fds :
          /\ trace[i].cFd # INVALID_SOCKET
          /\ e # trace[i].cFd
          /\ e \in _socketReadSet
          /\ _sockets[e].isServer = 0
          /\ _sockets[e].keepAlive = 0

(***************************************************************************)
(* Claims about the handling of one descriptor.                            *)
(***************************************************************************)
\* the state when the handler returns from the accept event of the
\* connection acc accepted on sFd, and from the read event of cFd
AfterAccept(sFd, acc, h1) ==
    _invokeCallback(AcceptDispatch(Cur, sFd, acc.fd).s, "socket_accept", sFd, acc.fd,
                    BufOf(acc.fd), BufOf(acc.fd), h1)

AfterRead(cFd, rcv, ok, h1) ==
    _invokeCallback(socketRead(Cur, cFd, rcv, ok).s, "socket_read", INVALID_SOCKET,
                    cFd, BufOf(cFd), BufOf(cFd), h1)

\* the step ends in the state mid but for the write interest, which is ws
EndsAs(mid, ws) ==
    /\ _sockets' = mid.sockets
    /\ _socketReadSet' = mid.rset
    /\ _socketWriteSet' = ws
    /\ _highestSocket' = mid.highest
    /\ kfd' = mid.kfd
    /\ removed' = mid.removed
    /\ trace' = mid.trace

\* what the step did after the handler returned in state mid for client c
Checked(mid, c) ==
    IF bufHasData(mid.sockets[c].oBuf)
    THEN /\ EndsAs(mid, mid.wset \cup {c})
         /\ c \in _socketReadSet'
    ELSE IF mid.sockets[c].keepAlive = 0
    THEN /\ c \notin _socketReadSet'
         /\ c \notin _socketWriteSet'
         /\ removed'[c] = 1
         /\ kfd'[c] = "closed"
         /\ _callback =>
               /\ Cardinality(Events({"socket_close"}))' = 1
               /\ \A i \in Events({"socket_close"})' : trace'[i].cFd = c
    ELSE EndsAs(mid, mid.wset)

\* C31: after the handler returns from an accept or read event for client c,
\* _checkClientSocket does exactly one of: c's output buffer has data: c is
\* put in _socketWriteSet and stays registered, whatever keepAlive is; else
\* keepAlive is 0: c is destroyed in the same step; else nothing changes.
C31_ReadinessCheck ==
    [][(pc = "exec" /\ phase = "in"
        /\ Events({"socket_accept", "socket_read"})' # {}) =>
          /\ \A acc \in AcceptOutcomes(Cur, fd), h1 \in BufOps, h2 \in PlainOps :
                (/\ _sockets[fd].isServer = 1
                 /\ acc.kind = "conn"
                 /\ _isValidSocket(acc.fd)
                 /\ Commit(_handleServerInput(Cur, fd, acc, h1, h2)))
                => Checked(AfterAccept(fd, acc, h1), acc.fd)
          /\ \A rcv \in RecvOutcomes(Cur, fd), ok \in BOOLEAN, h1 \in BufOps,
                h2 \in PlainOps :
                (/\ _sockets[fd].isServer = 0
                 /\ socketRead(Cur, fd, rcv, ok).ret = 1
                 /\ Commit(_handleClientInput(Cur, fd, rcv, ok, h1, h2)))
                => Checked(AfterRead(fd, rcv, ok, h1), fd)]_vars

\* a client was destroyed in the step that dispatched its accept or read
\* event
C31_Witness ==
    /\ pc = "exec"
    /\ \E i, j \in Events(SocketEvents) :
          /\ i < j
          /\ trace[i].op \in {"socket_accept", "socket_read"}
          /\ trace[j].op = "socket_close"
          /\ trace[j].cFd = trace[i].cFd
          /\ trace[i].cFd \notin _socketReadSet

\* the step is the output handling of the registered client fd, whose output
\* buffer held data, so that send() was called
WriteStep ==
    /\ pc = "exec"
    /\ phase = "out"
    /\ fd \in Clients
    /\ wr'.on
    /\ wr'.oBefore # <<>>

\* the step destroyed the socket fd by one _removeSocket
Destroyed ==
    /\ fd \notin _socketReadSet'
    /\ fd \notin _socketWriteSet'
    /\ removed'[fd] = 1
    /\ kfd'[fd] = "closed"

\* C32: output handling of a write-ready client.  A send() that fails or
\* takes no byte destroys the socket and no write event is fired.  After a
\* send() that took a byte, one write event is fired (a handler being
\* installed); then the descriptor leaves _socketWriteSet exactly if the
\* output buffer is empty when the handler has returned, and the socket is
\* destroyed exactly if that buffer is empty and keepAlive is 0.
C32_OutputHandling ==
    [][WriteStep =>
          /\ wr'.ret = 0 <=> wr'.n <= 0
          /\ wr'.ret = 0 => (Destroyed /\ Events({"socket_write"})' = {})
          /\ wr'.ret = 1 =>
                /\ Cardinality(Events({"socket_write"}))' = (IF _callback THEN 1 ELSE 0)
                /\ \A i \in Events({"socket_write"})' : trace'[i].cFd = fd
                /\ fd \in _socketWriteSet
                /\ fd \notin _socketWriteSet' <=> wr'.oHandled = <<>>
                /\ Destroyed <=> (wr'.oHandled = <<>> /\ wr'.keepAlive = 0)
                /\ ~Destroyed => /\ fd \in _socketReadSet'
                                 /\ removed'[fd] = 0
                                 /\ kfd'[fd] = "conn"
                                 /\ BufBytes(_sockets'[fd].oBuf) = wr'.oHandled
                                 /\ _sockets'[fd].keepAlive = wr'.keepAlive]_vars

\* a client was destroyed by the output handling that sent the last of its
\* output, after the write event
C32_Witness ==
    /\ pc \in {"exec", "host"}
    /\ wr.on
    /\ wr.ret = 1
    /\ wr.oBefore # <<>>
    /\ wr.oAfter = <<>>
    /\ ~wr.live
    /\ \E i, j \in Events(SocketEvents) :
          /\ i < j
          /\ trace[i].op = "socket_write"
          /\ trace[j].op = "socket_close"
          /\ trace[j].cFd = wr.fd

\* C33: in a tick with ready descriptors the loop visits the descriptors in
\* ascending order, each once, the input handling of a descriptor before its
\* output handling; a descriptor is handled only if its bit is set in the
\* copy of the set that select() returned; and a client that was accepted
\* during the tick (registered now, not in the copy of the read set) gets no
\* read and no write handling in that tick.
C33_SnapshotOrder ==
    [][pc = "exec" =>
          /\ phase = "in" => (phase' = "out" /\ fd' = fd /\ pc' = "exec")
          /\ phase = "out" => \/ (pc' = "exec" /\ phase' = "in" /\ fd' = fd + 1)
                              \/ pc' = "host"
          /\ UNCHANGED <<readSet, writeSet>> \/ pc' = "host"
          /\ (phase = "in" /\ (rd'.on \/ trace' # <<>>)) => fd \in readSet
          /\ (phase = "out" /\ wr'.on) => fd \in writeSet
          /\ (fd \in Clients /\ fd \notin readSet) => (~rd'.on /\ ~wr'.on)]_vars

(***************************************************************************)
(* MainSpec: main.c.  main() runs statement by statement (mpc says which   *)
(* comes next) and the signal handlers run between any two of them once    *)
(* _prepareSignals has installed them.  What providerPrepare, serverStart  *)
(* and serverExec return is drawn.  runs and ticks stop counting at their  *)
(* bounds.                                                                 *)
(***************************************************************************)
MaxSignals == 3
MaxRuns == 3
MaxTicks == 2

\* resultMapping[] of _exec, indexed by what serverExec returns
resultMapping(r) ==
    CASE r = 0 -> "EXIT_ERROR_SERVER"
      [] r = 1 -> "EXIT_OK"
      [] r = 2 -> "EXIT_ERROR_NO_CONNECTIONS"

UpTo(n, max) == IF n < max THEN n + 1 ELSE max

\* _termSignalHandler
TermSignal ==
    /\ mpc \notin {"main", "exit"}
    /\ signals < MaxSignals
    /\ _active' = 0
    /\ _restart' = 0
    /\ termed' = TRUE
    /\ signals' = signals + 1
    /\ UNCHANGED <<_exitCode, mpc, provided, runs, ticks, endedBy, progVars, bufVars>>

\* _restartSignalHandler
RestartSignal ==
    /\ mpc \notin {"main", "exit"}
    /\ signals < MaxSignals
    /\ _active' = 0
    /\ _restart' = 1
    /\ signals' = signals + 1
    /\ UNCHANGED <<_exitCode, mpc, provided, termed, runs, ticks, endedBy, progVars,
                   bufVars>>

\* _prepareSignals
PrepareSignals ==
    /\ mpc = "main"
    /\ mpc' = "prepare"
    /\ UNCHANGED <<_exitCode, _restart, _active, provided, termed, runs, ticks,
                   signals, endedBy, progVars, bufVars>>

\* the rest of _prepare: what it leaves in _exitCode when providerPrepare
\* returns ok
_prepare(ok) ==
    LET failed == IF ~ok THEN "EXIT_ERROR_PROVIDER" ELSE _exitCode
        fine == "EXIT_OK"
    IN  fine

MainPrepare ==
    /\ mpc = "prepare"
    /\ \E ok \in BOOLEAN :
          /\ provided' = ok
          /\ _exitCode' = _prepare(ok)
    /\ mpc' = "test"
    /\ UNCHANGED <<_restart, _active, termed, runs, ticks, signals, endedBy,
                   progVars, bufVars>>

\* main: if(_exitCode == EXIT_OK)
MainTest ==
    /\ mpc = "test"
    /\ mpc' = IF _exitCode = "EXIT_OK" THEN "activate" ELSE "shutdown"
    /\ UNCHANGED <<_exitCode, _restart, _active, provided, termed, runs, ticks,
                   signals, endedBy, progVars, bufVars>>

\* main: _active = 1
MainActivate ==
    /\ mpc = "activate"
    /\ _active' = 1
    /\ mpc' = "norestart"
    /\ UNCHANGED <<_exitCode, _restart, provided, termed, runs, ticks, signals,
                   endedBy, progVars, bufVars>>

\* main: _restart = 0
MainNoRestart ==
    /\ mpc = "norestart"
    /\ _restart' = 0
    /\ mpc' = "start"
    /\ UNCHANGED <<_exitCode, _active, provided, termed, runs, ticks, signals,
                   endedBy, progVars, bufVars>>

\* _exec: if(serverStart())
ExecStart ==
    /\ mpc = "start"
    /\ runs' = UpTo(runs, MaxRuns)
    /\ \E started \in BOOLEAN :
          IF started
          THEN mpc' = "loop" /\ UNCHANGED endedBy
          ELSE mpc' = "stop" /\ endedBy' = "notstarted"
    /\ UNCHANGED <<_exitCode, _restart, _active, provided, termed, ticks, signals,
                   progVars, bufVars>>

\* _exec: one test of while(_active && (_exitCode = resultMapping[serverExec()])
\* == EXIT_OK)
ExecLoop ==
    /\ mpc = "loop"
    /\ IF _active = 0
       THEN /\ endedBy' = "signal"
            /\ mpc' = "stop"
            /\ UNCHANGED <<_exitCode, ticks>>
       ELSE \E r \in {0, 1, 2} :
               /\ _exitCode' = resultMapping(r)
               /\ ticks' = UpTo(ticks, MaxTicks)
               /\ IF resultMapping(r) = "EXIT_OK"
                  THEN UNCHANGED <<mpc, endedBy>>
                  ELSE /\ mpc' = "stop"
                       /\ endedBy' = IF r = 0 THEN "fatal" ELSE "noconn"
    /\ UNCHANGED <<_restart, _active, provided, termed, runs, signals, progVars,
                   bufVars>>

\* _exec: serverStop()
ExecStop ==
    /\ mpc = "stop"
    /\ mpc' = "while"
    /\ UNCHANGED <<_exitCode, _restart, _active, provided, termed, runs, ticks,
                   signals, endedBy, progVars, bufVars>>

\* main: while(_restart)
MainWhile ==
    /\ mpc = "while"
    /\ mpc' = IF _restart # 0 THEN "activate" ELSE "shutdown"
    /\ UNCHANGED <<_exitCode, _restart, _active, provided, termed, runs, ticks,
                   signals, endedBy, progVars, bufVars>>

\* main: _shutdown(); return _exitCode
MainShutdown ==
    /\ mpc = "shutdown"
    /\ mpc' = "exit"
    /\ UNCHANGED <<_exitCode, _restart, _active, provided, termed, runs, ticks,
                   signals, endedBy, progVars, bufVars>>

MainNext ==
    \/ TermSignal
    \/ RestartSignal
    \/ PrepareSignals
    \/ MainPrepare
    \/ MainTest
    \/ MainActivate
    \/ MainNoRestart
    \/ ExecStart
    \/ ExecLoop
    \/ ExecStop
    \/ MainWhile
    \/ MainShutdown

MainSpec == Init /\ [][MainNext]_vars

(***************************************************************************)
(* Claims about main.c.                                                    *)
(***************************************************************************)
\* C34: once a terminating signal has been delivered, main() makes no
\* further call of serverExec and, having stopped the server, does not go
\* round the restart loop again but shuts down: the request is not lost and
\* not overridden by an earlier restart request.
C34_TerminateWins ==
    [][termed =>
          /\ ticks' = ticks
          /\ mpc = "while" => mpc' \in {"while", "shutdown"}]_vars

\* C35: if providerPrepare returned 0, then from the end of _prepare on
\* _exitCode is EXIT_ERROR_PROVIDER, serverStart is never called and
\* serverExec is never called.
C35_ProviderFailureStops ==
    (mpc \notin {"main", "prepare"} /\ ~provided) =>
        /\ _exitCode = "EXIT_ERROR_PROVIDER"
        /\ runs = 0
        /\ ticks = 0

\* the loop of _exec has ended in this run
LoopEnded == mpc \in {"stop", "while"} /\ endedBy # "notstarted"

\* C36: the loop of _exec calls serverExec again and again and ends at the
\* first result that is not 1 or when a signal has cleared _active; when it
\* has ended, _exitCode is EXIT_ERROR_SERVER after a tick that returned 0,
\* EXIT_ERROR_NO_CONNECTIONS after a tick that returned 2, and EXIT_OK when a
\* signal ended it.
C36_ExitCodeOfLoop ==
    LoopEnded =>
        /\ endedBy \in {"fatal", "noconn", "signal"}
        /\ endedBy = "fatal" => _exitCode = "EXIT_ERROR_SERVER"
        /\ endedBy = "noconn" => _exitCode = "EXIT_ERROR_NO_CONNECTIONS"
        /\ endedBy = "signal" => _exitCode = "EXIT_OK"

(***************************************************************************)
(* Claims about errors of the script.                                      *)
(***************************************************************************)
\* the events of the step taken whose handler raised an error: the two log
\* lines of _luaServerCallback follow the event in the trace
Raised ==
    {i \in Events(AllEvents)' :
        /\ i + 2 <= Len(trace')
        /\ trace'[i + 1].op = "log"
        /\ trace'[i + 2].op = "log"}

\* the state differs from s at most in the trace
SameSockets(s) ==
    /\ s.sockets = _sockets
    /\ s.rset = _socketReadSet
    /\ s.wset = _socketWriteSet
    /\ s.highest = _highestSocket
    /\ s.kfd = kfd

\* C37: when the script raises an error in an event for the registered
\* client cFd, serverCloseSocket(cFd) clears its keepAlive and sets its write
\* interest and changes nothing else, so that the client is destroyed in the
\* same step if it has no output pending and is otherwise left registered,
\* with write interest and keepAlive 0, to be destroyed when the output is
\* flushed; an error in an event without cFd (start, stop, idle, the close of
\* a listening socket) changes no socket.
C37_ScriptErrorSoftCloses ==
    /\ [](/\ SameSockets(ScriptError(Cur, INVALID_SOCKET))
          /\ \A c \in Clients :
                LET s == ScriptError(Cur, c)
                IN  /\ s.sockets = [_sockets EXCEPT ![c].keepAlive = 0]
                    /\ s.wset = _socketWriteSet \cup {c}
                    /\ s.rset = _socketReadSet
                    /\ s.highest = _highestSocket
                    /\ s.kfd = kfd)
    /\ [][ProgramStep =>
            \A i \in Raised :
               LET c == trace'[i].cFd
               IN  /\ (c # INVALID_SOCKET /\ trace'[i].live
                       /\ _sockets'[c].isServer = 0
                       /\ trace'[i].op # "socket_close") =>
                          \/ /\ c \notin _socketReadSet'
                             /\ \E j \in Events({"socket_close"})' :
                                   j > i /\ trace'[j].cFd = c
                          \/ /\ c \in _socketReadSet'
                             /\ c \in _socketWriteSet'
                             /\ _sockets'[c].keepAlive = 0
                             /\ bufHasData(_sockets'[c].oBuf)
                   /\ trace'[i].op \in {"start", "idle", "stop"} =>
                          (c = INVALID_SOCKET /\ ProgramUnchanged)
                   /\ (trace'[i].op = "socket_close" /\ c = INVALID_SOCKET) =>
                          LET d == trace'[i].sFd
                          IN  /\ _sockets' = [_sockets EXCEPT ![d] = ZeroSocket]
                              /\ _socketReadSet' = _socketReadSet \ {d}
                              /\ _socketWriteSet' = _socketWriteSet \ {d}
                              /\ \A e \in KFds \ {d} : kfd'[e] = kfd[e]]_vars

\* the script raised an error in the read event of a client that has output
\* pending: the client is registered, with write interest and keepAlive 0
C37_Witness ==
    /\ pc = "exec"
    /\ Len(trace) >= 3
    /\ trace[1].op = "socket_read"
    /\ trace[2].op = "log"
    /\ trace[3].op = "log"
    /\ trace[1].cFd \in _socketReadSet
    /\ trace[1].cFd \in _socketWriteSet
    /\ _sockets[trace[1].cFd].keepAlive = 0
    /\ bufHasData(_sockets[trace[1].cFd].oBuf)

(***************************************************************************)
(* Claims about the interest sets between two ticks.                       *)
(***************************************************************************)
\* C38: whenever the host has control (between two calls of the reactor),
\* every descriptor of the write set is registered, that is a member of the
\* read set: no descriptor that is not registered is polled for writability.
C38_WriteWithinRead == pc = "host" => _socketWriteSet \subseteq _socketReadSet

\* C39: whenever the host has control, every registered client whose output
\* buffer holds data is in the write set, so that the next tick polls it for
\* writability: output the handler appended is not left without a write.
C39_PendingOutputPolled ==
    pc = "host" =>
        \A c \in Clients : bufHasData(_sockets[c].oBuf) => c \in _socketWriteSet

\* the tick ended with the write event of a client that stays open and whose
\* output buffer holds data after the event: it is in the write set
C39_Witness ==
    /\ pc = "host"
    /\ \E i \in Events({"socket_write"}) :
          LET c == trace[i].cFd
          IN  /\ c \in Clients
              /\ _sockets[c].keepAlive = 1
              /\ bufHasData(_sockets[c].oBuf)
              /\ c \in _socketWriteSet

(***************************************************************************)
(* Claims about the capacity of the buffer.                                *)
(***************************************************************************)
\* C40: after any sequence of calls the capacity of the buffer is the
\* smallest multiple of IO_BUF_SIZE that is not below its length (0 for
\* length 0), so it exceeds the length by less than one chunk; and an append
\* changes the capacity, which it does only through the allocator, only to
\* raise it to that value.
C40_CapacityIsAlignedLength ==
    /\ [](/\ b.size % IO_BUF_SIZE = 0
          /\ b.size >= b.len
          /\ b.size - b.len < IO_BUF_SIZE)
    /\ [][(BufAppend /\ b'.size # b.size) =>
              /\ bRet'.ret = 1
              /\ b'.size > b.size
              /\ b'.len > b.size]_vars

\* an append to a buffer that holds data grew the storage by a chunk and
\* left it partly filled
C40_Witness ==
    /\ bOp = "append"
    /\ bRet.ret = 1
    /\ bPrev.len > 0
    /\ b.size = bPrev.size + IO_BUF_SIZE
    /\ b.len > IO_BUF_SIZE
    /\ b.size > b.len

====
